---------------------------- MODULE Spec2Model ----------------------------
(***************************************************************************)
(* A model of the shellwrapper flow engine (package shellwrapper, the      *)
(* revision in src/main.go lines 104-800 with the Flow type of             *)
(* src/flow.go lines 31-69).                                               *)
(*                                                                         *)
(* Strings.  A string the user can type (a line, a token, a child key, a   *)
(* default, an answer) is a sequence of one-character strings; a literal   *)
(* of the code is one fragment.  A text is a sequence of fragments and     *)
(* concatenation is \o.  The byte 27 is the fragment ESC, a newline NL and *)
(* a tab TAB.                                                              *)
(***************************************************************************)
EXTENDS Integers, Sequences, FiniteSets, TLC

VARIABLES
    prog,            \* the configuration the host program built (its name)
    heap,            \* the Flow nodes allocated so far, by address 1..Len(heap)
    flow,            \* Shell.flow: the address of the current node
    command,         \* Shell.command
    branches,        \* Shell.branches: name -> closure
    bufferSize,      \* Shell.bufferSize
    Buffer,          \* Shell.Buffer, front first
    awaitingAnswer,  \* Shell.awaitingAnswer
    qas,             \* Shell.qas
    intQas,          \* Shell.intQas
    floatQas,        \* Shell.floatQas
    exited,          \* Shell.exited
    cancel,          \* Shell.cancel: "open" or "closed"
    OsInterrupt,     \* Shell.OsInterrupt: the number of buffered signals (capacity 1)
    pc,              \* the position of the goroutine running()
    ev,              \* runEvents' e: an index into the current node's Events, 0 for nil
    startPc,         \* the position of the goroutine that called Start()
    startBack,       \* the Buffer.Back() its shellOutput is about to Remove
    readers,         \* the waitForInput goroutines alive, oldest first
    LastCaptured,    \* Shell.LastCaptured (capacity 1)
    jit,             \* the jitter of the runFunc in progress
    cb,              \* the callback of the runFunc in progress
    deferred,        \* jitter goroutines that have sent on jitterEnded and have
                     \* their deferred load.Stop() and writer.Flush() yet to run
    message,         \* the host program's variable the callbacks set
    panicked,        \* a Go panic has ended the process
    out,             \* everything shellOutput has emitted, oldest first (a history)
    last,            \* the last token dispatched to a handler (a history)
    inputs,          \* lines the user has typed so far (a counter)
    signals          \* interrupts delivered so far (a counter)

vars == <<prog, heap, flow, command, branches, bufferSize, Buffer, awaitingAnswer,
          qas, intQas, floatQas, exited, cancel, OsInterrupt, pc, ev, startPc,
          startBack, readers, LastCaptured, jit, cb, deferred, message, panicked,
          out, last, inputs, signals>>

-----------------------------------------------------------------------------
(* Bounds of the model. *)

\* lines the user types in one session
MaxInputs == 3
\* interrupts delivered in one session
MaxSignals == 1
\* the History Buffer by itself: its capacities and the records made
MaxCapacity == 3
MaxRecords == 4
\* the builder by itself: the calls of IfUserInputs and the tokens of one call
MaxCalls == 3
MaxTokens == 2

-----------------------------------------------------------------------------
(* Constants of the program. *)

JITTER_TIME == 140
BACK == <<"b", "a", "c", "k">>
QUIT == <<"q", "u", "i", "t">>
EXIT == <<"e", "x", "i", "t">>
\* uuid.NewString(): a string no user types
errorUUID == <<"#errorUUID">>
exitUUID == <<"#exitUUID">>
DefaultBufferSize == 10
ESC == "ESC"
NL == "\n"
TAB == "\t"

-----------------------------------------------------------------------------
(* Strings. *)

RECURSIVE RemoveAll(_, _)
\* strings.ReplaceAll(s, c, "")
RemoveAll(s, c) ==
    IF s = <<>> THEN <<>>
    ELSE IF Head(s) = c THEN RemoveAll(Tail(s), c)
    ELSE <<Head(s)>> \o RemoveAll(Tail(s), c)

RECURSIVE TrimLeft(_, _)
TrimLeft(s, c) ==
    IF s # <<>> /\ Head(s) = c THEN TrimLeft(Tail(s), c) ELSE s

RECURSIVE TrimRight(_, _)
TrimRight(s, c) ==
    IF s # <<>> /\ s[Len(s)] = c THEN TrimRight(SubSeq(s, 1, Len(s) - 1), c) ELSE s

\* strings.Trim(s, c)
Trim(s, c) == TrimRight(TrimLeft(s, c), c)

\* strings.TrimSuffix(s, "\n")
TrimSuffixNL(s) ==
    IF s # <<>> /\ s[Len(s)] = NL THEN SubSeq(s, 1, Len(s) - 1) ELSE s

RECURSIVE Join(_, _)
\* strings.Join(list, sep)
Join(list, sep) ==
    IF list = <<>> THEN <<>>
    ELSE IF Len(list) = 1 THEN list[1]
    ELSE list[1] \o <<sep>> \o Join(Tail(list), sep)

Digits == {"0", "1", "2", "3", "4", "5", "6", "7", "8", "9"}

DigitVal(c) ==
    CASE c = "0" -> 0 [] c = "1" -> 1 [] c = "2" -> 2 [] c = "3" -> 3 [] c = "4" -> 4
      [] c = "5" -> 5 [] c = "6" -> 6 [] c = "7" -> 7 [] c = "8" -> 8 [] c = "9" -> 9

RECURSIVE DecVal(_, _)
DecVal(s, acc) ==
    IF s = <<>> THEN acc ELSE DecVal(Tail(s), 10 * acc + DigitVal(Head(s)))

AllDigits(s) == s # <<>> /\ \A i \in 1..Len(s) : s[i] \in Digits

\* strconv.Atoi: an optional sign and decimal digits (the lines of the model are
\* too short to leave the range of int)
AtoiOk(s) ==
    IF s # <<>> /\ Head(s) \in {"+", "-"} THEN AllDigits(Tail(s)) ELSE AllDigits(s)

Atoi(s) ==
    IF Head(s) = "-" THEN 0 - DecVal(Tail(s), 0)
    ELSE IF Head(s) = "+" THEN DecVal(Tail(s), 0)
    ELSE DecVal(s, 0)

DigitChar(n) ==
    CASE n = 0 -> "0" [] n = 1 -> "1" [] n = 2 -> "2" [] n = 3 -> "3" [] n = 4 -> "4"
      [] n = 5 -> "5" [] n = 6 -> "6" [] n = 7 -> "7" [] n = 8 -> "8" [] n = 9 -> "9"

RECURSIVE NatChars(_)
NatChars(n) == IF n < 10 THEN <<DigitChar(n)>> ELSE NatChars(n \div 10) \o <<DigitChar(n % 10)>>

\* fmt's %d
Itoa(n) == IF n < 0 THEN <<"-">> \o NatChars(0 - n) ELSE NatChars(n)

\* Shell.sanitize
sanitize(line) == Trim(RemoveAll(RemoveAll(line, NL), TAB), " ")

-----------------------------------------------------------------------------
(* Flow nodes and events. *)

NoFlows == [t \in {} |-> 0]

\* NewFlow()
NewFlow ==
    [Instruction |-> <<>>, Default |-> <<>>, BaseCommands |-> <<>>,
     Flows |-> NoFlows, Events |-> <<>>]

\* An EventFunc: the closure one builder call appends.  kind says which call
\* made it; text, fn, key and n are the variables the closure captures.
Event(kind, text, fn, key, n) ==
    [kind |-> kind, text |-> text, fn |-> fn, key |-> key, n |-> n]

\* Flow.AddEvent
AddEvent(h, node, e) ==
    [h EXCEPT ![node].Events = Append(@, e)]

-----------------------------------------------------------------------------
(* The builder.  A builder state b holds the fields of Shell the builder     *)
(* calls read and write: heap, flow, command, branches, bufferSize, and      *)
(* panicked once a call has panicked.  The same calls run at configuration   *)
(* time (from the host program) and during the session (from the closures    *)
(* of ThenBranch and Branch).                                                *)

\* Shell.getFlow: 0 stands for the nil a missing key gives
getFlow(b) ==
    IF Len(b.command) < 1 THEN b.flow
    ELSE IF b.command \in DOMAIN b.heap[b.flow].Flows
         THEN b.heap[b.flow].Flows[b.command]
         ELSE 0

\* setFlow when a token that names a child keeps it
setFlow_KeepsFirst(b, node, cmd) ==
    [b EXCEPT !.heap[b.flow].Flows = @ @@ (cmd :> node)]

\* Shell.setFlow
setFlow(b, node, cmd) ==
    [b EXCEPT !.heap[b.flow].Flows = (cmd :> node) @@ @]

\* reservedWord when it knows exit only
reservedWord_ExitOnly(input) == input = EXIT

\* Shell.reservedWord: whether it panics
reservedWord(input) == input = EXIT \/ input = QUIT \/ input = BACK

RECURSIVE addCommandLoop_AllOptions(_, _, _, _)
\* the loop of addCommand when it appends every token to BaseCommands
addCommandLoop_AllOptions(b, node, input, commandAdded) ==
    IF input = <<>> \/ b.panicked THEN b
    ELSE IF reservedWord(Head(input)) THEN [b EXCEPT !.panicked = TRUE]
    ELSE LET b1 == [b EXCEPT !.heap[b.flow].BaseCommands = Append(@, Head(input)),
                             !.command = Head(input)]
         IN addCommandLoop_AllOptions(setFlow(b1, node, Head(input)), node,
                                      Tail(input), TRUE)

RECURSIVE addCommandLoop(_, _, _, _)
\* the loop of Shell.addCommand over input[i..]; node is the new Flow
addCommandLoop(b, node, input, commandAdded) ==
    IF input = <<>> \/ b.panicked THEN b
    ELSE IF reservedWord(Head(input)) THEN [b EXCEPT !.panicked = TRUE]
    ELSE LET b1 == IF commandAdded THEN b
                   ELSE [b EXCEPT !.heap[b.flow].BaseCommands = Append(@, Head(input)),
                                  !.command = Head(input)]
         IN addCommandLoop(setFlow(b1, node, Head(input)), node, Tail(input), TRUE)

\* addCommand when a token that already names a child somewhere gets that
\* child again instead of a new Flow
addCommand_Shared(b, input) ==
    LET owners == {n \in 1..Len(b.heap) :
                      input # <<>> /\ Head(input) \in DOMAIN b.heap[n].Flows}
    IN IF owners = {}
       THEN addCommandLoop([b EXCEPT !.heap = Append(@, NewFlow)], Len(b.heap) + 1,
                           input, FALSE)
       ELSE addCommandLoop(b, b.heap[CHOOSE n \in owners : TRUE].Flows[Head(input)],
                           input, FALSE)

\* Shell.addCommand: the builder state after it (it returns whether input is
\* non-empty)
addCommand(b, input) ==
    addCommandLoop([b EXCEPT !.heap = Append(@, NewFlow)], Len(b.heap) + 1, input, FALSE)

\* Shell.IfUserInputs: the event is appended to s.flow, the parent
IfUserInputs(b, input) ==
    LET b1 == addCommand(b, input)
    IN IF b1.panicked \/ input = <<>> THEN b1
       ELSE [b1 EXCEPT !.heap = AddEvent(@, b1.flow, Event("await", <<>>, "", "", 0))]

\* Shell.Default
Default(b, def) == [b EXCEPT !.heap[b.flow].Default = def]

\* Shell.FirstInstruction
FirstInstruction(b, instruction) ==
    [b EXCEPT !.heap[getFlow(b)].Instruction = instruction]

\* Shell.SetBufferSize
SetBufferSize(b, n) == [b EXCEPT !.bufferSize = n]

\* Shell.ThenRun
ThenRun(b, f, loadingMessage, timeout) ==
    [b EXCEPT !.heap = AddEvent(@, getFlow(b), Event("exec", loadingMessage, f, "", timeout))]

\* Shell.ThenBranch
ThenBranch(b, instruction, f) ==
    [b EXCEPT !.heap = AddEvent(@, getFlow(b), Event("branch", instruction, f, "", 0))]

\* Shell.Branch
Branch(b, name, f) == [b EXCEPT !.branches = (name :> f) @@ @]

\* Shell.ThenDisplay
ThenDisplay(b, display) ==
    [b EXCEPT !.heap = AddEvent(@, getFlow(b), Event("display", <<>>, display, "", 0))]

\* Shell.ThenQuit
ThenQuit(b, msg) ==
    [b EXCEPT !.heap = AddEvent(@, getFlow(b), Event("quit", msg, "", "", 0))]

\* GoTo when a missing branch gets no Quit event in its place
GoTo_NoQuit(b, name, instruction) ==
    [b EXCEPT !.heap = AddEvent(@, getFlow(b),
        Event("goto", instruction,
              IF name \in DOMAIN b.branches THEN b.branches[name] ELSE "nil", "", 0))]

\* Shell.GoTo: the event captures the closure found now, "nil" when there is none
GoTo(b, name, instruction) ==
    LET ok == name \in DOMAIN b.branches
        b1 == IF ok THEN b
              ELSE ThenQuit(b, <<"branch '", name, "' not found">>)
    IN [b1 EXCEPT !.heap = AddEvent(@, getFlow(b1),
            Event("goto", instruction, IF ok THEN b.branches[name] ELSE "nil", "", 0))]

\* Shell.ask: handler is "any", "int" or "float"
ask(b, question, storeAs, handler) ==
    [b EXCEPT !.heap = AddEvent(@, getFlow(b), Event("ask", question, handler, storeAs, 0))]

\* Shell.Ask
Ask(b, question, storeAs) == ask(b, question, storeAs, "any")

\* Shell.AskForInt
AskForInt(b, question, storeAs) == ask(b, question, storeAs, "int")

\* Shell.AskForFloat
AskForFloat(b, question, storeAs) == ask(b, question, storeAs, "float")

\* One builder call of a host program or of a closure, as data.
Call(op, toks, text, fn, key, n) ==
    [op |-> op, toks |-> toks, text |-> text, fn |-> fn, key |-> key, n |-> n]

cIfUserInputs(toks) == Call("IfUserInputs", toks, <<>>, "", "", 0)
cDefault(def) == Call("Default", <<>>, def, "", "", 0)
cFirstInstruction(t) == Call("FirstInstruction", <<>>, t, "", "", 0)
cSetBufferSize(n) == Call("SetBufferSize", <<>>, <<>>, "", "", n)
cThenRun(f, lm, timeout) == Call("ThenRun", <<>>, lm, f, "", timeout)
cThenBranch(instruction, f) == Call("ThenBranch", <<>>, instruction, f, "", 0)
cBranch(name, f) == Call("Branch", <<>>, <<>>, f, name, 0)
cThenDisplay(d) == Call("ThenDisplay", <<>>, <<>>, d, "", 0)
cThenQuit(msg) == Call("ThenQuit", <<>>, msg, "", "", 0)
cGoTo(name, instruction) == Call("GoTo", <<>>, instruction, "", name, 0)
cAsk(q, storeAs) == Call("Ask", <<>>, q, "", storeAs, 0)
cAskForInt(q, storeAs) == Call("AskForInt", <<>>, q, "", storeAs, 0)
cAskForFloat(q, storeAs) == Call("AskForFloat", <<>>, q, "", storeAs, 0)

\* the builder state after one call; a panicked builder runs nothing more
ApplyCall(b, c) ==
    IF b.panicked THEN b
    ELSE CASE c.op = "IfUserInputs" -> IfUserInputs(b, c.toks)
           [] c.op = "Default" -> Default(b, c.text)
           [] c.op = "FirstInstruction" -> FirstInstruction(b, c.text)
           [] c.op = "SetBufferSize" -> SetBufferSize(b, c.n)
           [] c.op = "ThenRun" -> ThenRun(b, c.fn, c.text, c.n)
           [] c.op = "ThenBranch" -> ThenBranch(b, c.text, c.fn)
           [] c.op = "Branch" -> Branch(b, c.key, c.fn)
           [] c.op = "ThenDisplay" -> ThenDisplay(b, c.fn)
           [] c.op = "ThenQuit" -> ThenQuit(b, c.text)
           [] c.op = "GoTo" -> GoTo(b, c.key, c.text)
           [] c.op = "Ask" -> Ask(b, c.text, c.key)
           [] c.op = "AskForInt" -> AskForInt(b, c.text, c.key)
           [] c.op = "AskForFloat" -> AskForFloat(b, c.text, c.key)

RECURSIVE ApplyCalls(_, _)
\* a chain of builder calls, in order
ApplyCalls(b, calls) ==
    IF calls = <<>> THEN b ELSE ApplyCalls(ApplyCall(b, Head(calls)), Tail(calls))

\* NewShell(): the builder's part of it
NewShell ==
    [heap |-> <<NewFlow>>, flow |-> 1, command |-> <<>>, branches |-> [x \in {} |-> ""],
     bufferSize |-> DefaultBufferSize, panicked |-> FALSE]

-----------------------------------------------------------------------------
(* The host programs: the configurations of the repository's tests and of   *)
(* the README, as chains of builder calls, with the closures they pass.     *)

YES == <<"y", "e", "s">>
Y == <<"y">>
NO == <<"n", "o">>
N == <<"n">>
ONE == <<"o", "n", "e">>
TWO == <<"t", "w", "o">>
HELLO == <<"h", "i">>
BYE == <<"b", "y", "e">>
BAD == <<"b", "a", "d">>
ROBOT == <<"r", "o", "b", "o", "t">>

\* the lines a user types end with the newline ReadString stops at
Line(t) == t \o <<NL>>
ArrowUp == <<ESC, "[", "A">>
ArrowDown == <<ESC, "[", "B">>

\* the calls a FlowFunc makes
Closure(f) ==
    CASE f = "branching" ->
            \* TestBranching's ThenBranch callback
            << cIfUserInputs(<<YES>>), cThenQuit(<<"that's all we can do though.">>),
               cDefault(YES), cIfUserInputs(<<NO>>), cThenQuit(<<"OK">>) >>
      [] f = "branch_one" ->
            << cIfUserInputs(<<HELLO>>), cThenQuit(<<"hello">>) >>
      [] f = "branch_two" ->
            << cIfUserInputs(<<BYE>>), cThenQuit(<<"goodbye">>) >>
      [] f = "again" ->
            \* a branch that offers itself again
            << cIfUserInputs(<<Y>>), cGoTo("again", <<"again?">>),
               cIfUserInputs(<<N>>), cThenQuit(<<"bye">>) >>
      [] f = "retry" ->
            \* a branch that asks again and shows the answer again
            << cAsk(<<"and tomorrow?">>, "forecast"), cThenDisplay("forecast") >>

\* the ExecFunc callbacks: dur is how long the callback runs (ms); a callback
\* that checks looks at ctx.Done() when that time has passed and returns
\* ctxErr if it is closed; otherwise it sets message (sets: "const", the
\* answer stored under key for "value", or nothing) and returns err (<<>> is
\* nil)
ExecFunc(f) ==
    CASE f = "ran" ->
            \* TestFunc
            [dur |-> 0, checks |-> TRUE, sets |-> "const", key |-> "",
             err |-> <<>>, ctxErr |-> <<"timeout (not expected)">>]
      [] f = "slow" ->
            \* TestFuncTimeout: time.Sleep(2s) first
            [dur |-> 2000, checks |-> TRUE, sets |-> "const", key |-> "",
             err |-> <<>>, ctxErr |-> <<"timeout (expected)">>]
      [] f = "answered" ->
            \* TestAsk
            [dur |-> 0, checks |-> FALSE, sets |-> "value", key |-> "amv",
             err |-> <<>>, ctxErr |-> <<>>]
      [] f = "fails" ->
            [dur |-> 0, checks |-> FALSE, sets |-> "none", key |-> "",
             err |-> <<"no bueno">>, ctxErr |-> <<>>]
      [] f = "eof" ->
            [dur |-> 0, checks |-> FALSE, sets |-> "none", key |-> "",
             err |-> <<"EOF">>, ctxErr |-> <<>>]
      [] f = "blank" ->
            [dur |-> 0, checks |-> FALSE, sets |-> "none", key |-> "",
             err |-> <<"carriage_return">>, ctxErr |-> <<>>]
      [] f = "late" ->
            \* sleeps past the deadline, never looks at ctx, and returns nil
            [dur |-> 700, checks |-> FALSE, sets |-> "const", key |-> "",
             err |-> <<>>, ctxErr |-> <<>>]
      [] f = "brisk" ->
            \* as TestFunc's, after a sleep shorter than the deadline
            [dur |-> 200, checks |-> TRUE, sets |-> "const", key |-> "",
             err |-> <<>>, ctxErr |-> <<"timeout (not expected)">>]

\* Shell.GetValue
GetValue(q, storedAs) == IF storedAs \in DOMAIN q THEN q[storedAs] ELSE <<>>

\* Shell.GetIntValue
GetIntValue(iq, storedAs) ==
    IF storedAs \in DOMAIN iq THEN [result |-> iq[storedAs], found |-> TRUE]
    ELSE [result |-> 0, found |-> FALSE]

\* what a DisplayFunc returns when it is called with the answers q and iq
DisplayFunc(d, q, iq) ==
    CASE d = "pointless" -> <<"> guess this programme was pretty pointless huh?">>
      [] d = "only" -> <<"> This should be the only buffer item, and it will soon be replaced...">>
      [] d = "forecast" -> <<"Looks like ">> \o GetValue(q, "forecast") \o <<" weather...">>
      [] d = "version" -> <<"installed version '">> \o Itoa(GetIntValue(iq, "version").result) \o <<"'">>

Programs ==
    {"TestBadCommand", "TestBranching", "TestGotos", "TestNoBranch", "TestFunc",
     "TestFuncTimeout", "TestAsk", "TestAskInt", "TestThenDisplay", "TestSmallBuffer",
     "Forecast", "Version", "ExecErrors", "Deadlines",
     "SmallBufferAwait", "ZeroBuffer", "Again",
     "Twice", "Nameless", "Ticks"}

\* the builder calls of each host program
Script(p) ==
    CASE p = "TestBadCommand" ->
            \* also TestQuit and TestInterrupt
            << cFirstInstruction(<<"run programme?">>), cIfUserInputs(<<YES, Y>>),
               cDefault(YES), cThenQuit(<<"thank you">>) >>
      [] p = "TestBranching" ->
            << cFirstInstruction(<<"run programme?">>), cSetBufferSize(1000),
               cIfUserInputs(<<YES, Y>>), cDefault(YES), cThenQuit(<<"thank you">>),
               cIfUserInputs(<<NO, N>>),
               cThenBranch(<<"would you like to do anything else?">>, "branching") >>
      [] p = "TestGotos" ->
            << cFirstInstruction(<<"run programme?">>),
               cBranch("branch_one", "branch_one"), cBranch("branch_two", "branch_two"),
               cIfUserInputs(<<ONE>>), cDefault(ONE),
               cGoTo("branch_one", <<"you've entered branch one">>),
               cIfUserInputs(<<TWO>>),
               cGoTo("branch_two", <<"you've entered branch two">>) >>
      [] p = "TestNoBranch" ->
            << cFirstInstruction(<<"run programme?">>),
               cIfUserInputs(<<ONE>>), cDefault(ONE),
               cGoTo("branch_one", <<"you've entered branch one">>),
               cIfUserInputs(<<TWO>>),
               cGoTo("branch_two", <<"you've entered branch two">>) >>
      [] p = "TestFunc" ->
            << cSetBufferSize(10000), cFirstInstruction(<<"run programme?">>),
               cIfUserInputs(<<YES, Y>>), cDefault(YES),
               cThenRun("ran", <<"function loading">>, 10000),
               cThenQuit(<<"thank you">>) >>
      [] p = "TestFuncTimeout" ->
            << cFirstInstruction(<<"run programme?">>),
               cIfUserInputs(<<YES, Y>>), cDefault(YES),
               cThenRun("slow", <<"running...">>, 100),
               cThenQuit(<<"thank you">>) >>
      [] p = "TestAsk" ->
            << cFirstInstruction(<<"run programme?">>),
               cIfUserInputs(<<YES, Y>>),
               cAsk(<<"Are you animal, mineral or vegetable?">>, "amv"),
               cDefault(YES),
               cThenRun("answered", <<"running...">>, 100) >>
      [] p = "TestAskInt" ->
            << cSetBufferSize(100),
               cAskForInt(<<"how many apples do you want?">>, "apples") >>
      [] p = "TestThenDisplay" ->
            << cSetBufferSize(100), cThenDisplay("pointless") >>
      [] p = "TestSmallBuffer" ->
            << cSetBufferSize(1), cThenDisplay("only"), cThenDisplay("pointless") >>
      [] p = "Forecast" ->
            \* README, "Retrieving a user's answers", and then once more in a branch
            << cAsk(<<"how is the weather today?">>, "forecast"),
               cThenDisplay("forecast"),
               cThenBranch(<<"again?">>, "retry") >>
      [] p = "Version" ->
            \* README, "Asking questions"
            << cFirstInstruction(<<"would you like to install AWESOME PROGRAMME?">>),
               cIfUserInputs(<<YES, Y>>),
               cAskForInt(<<"What version?">>, "version"),
               cThenDisplay("version"),
               cIfUserInputs(<<NO, N>>), cThenQuit(<<"OK!">>) >>
      [] p = "ExecErrors" ->
            \* the three kinds of error bufferError tells apart
            << cFirstInstruction(<<"which error?">>),
               cIfUserInputs(<<ONE>>), cThenRun("fails", <<"running...">>, 100),
               cThenQuit(<<"one done">>),
               cIfUserInputs(<<TWO>>), cThenRun("eof", <<"running...">>, 100),
               cThenQuit(<<"two done">>),
               cIfUserInputs(<<N>>), cThenRun("blank", <<"running...">>, 100),
               cThenQuit(<<"three done">>) >>
      [] p = "Deadlines" ->
            \* a callback that outlasts its deadline and one that beats it
            << cFirstInstruction(<<"which callback?">>),
               cIfUserInputs(<<ONE>>), cThenRun("late", <<"running...">>, 300),
               cThenQuit(<<"late done">>),
               cIfUserInputs(<<TWO>>), cThenRun("brisk", <<"running...">>, 300),
               cThenQuit(<<"brisk done">>) >>
      [] p = "SmallBufferAwait" ->
            \* the buffer of TestSmallBuffer with the flow of TestBadCommand
            << cSetBufferSize(1), cFirstInstruction(<<"run programme?">>),
               cIfUserInputs(<<YES, Y>>), cDefault(YES), cThenQuit(<<"thank you">>) >>
      [] p = "ZeroBuffer" ->
            \* TestThenDisplay with a buffer of no record
            << cSetBufferSize(0), cThenDisplay("pointless") >>
      [] p = "Again" ->
            \* one Branch whose closure goes to itself, as TestGotos's could
            << cBranch("again", "again"), cFirstInstruction(<<"go on?">>),
               cIfUserInputs(<<Y>>), cGoTo("again", <<"again?">>),
               cIfUserInputs(<<N>>), cThenQuit(<<"bye">>) >>
      [] p = "Twice" ->
            \* one token registered twice under the root
            << cFirstInstruction(<<"which one?">>),
               cIfUserInputs(<<Y>>), cThenQuit(<<"first">>),
               cIfUserInputs(<<Y>>), cThenQuit(<<"second">>) >>
      [] p = "Nameless" ->
            \* a question stored under the empty key, at a node with a default
            << cAsk(<<"what is your name?">>, ""),
               cIfUserInputs(<<Y>>), cDefault(Y), cThenQuit(<<"thank you">>) >>
      [] p = "Ticks" ->
            \* a callback that outlasts a deadline of 0, of one tick and of three
            << cFirstInstruction(<<"which deadline?">>),
               cIfUserInputs(<<ONE>>), cThenRun("late", <<"running...">>, 0),
               cThenQuit(<<"none done">>),
               cIfUserInputs(<<TWO>>), cThenRun("late", <<"running...">>, JITTER_TIME),
               cThenQuit(<<"one done">>),
               cIfUserInputs(<<N>>), cThenRun("late", <<"running...">>, 3 * JITTER_TIME),
               cThenQuit(<<"three done">>) >>

\* the lines the user of each host program may type
Lines(p) ==
    CASE p = "TestBadCommand" ->
            {Line(BAD), Line(EXIT), Line(QUIT), Line(<<>>), Line(<<" ">> \o Y \o <<TAB>>),
             Line(ArrowUp)}
      [] p = "TestBranching" ->
            {Line(N), Line(YES), Line(NO), Line(<<>>), Line(BACK), Line(QUIT)}
      [] p = "TestGotos" -> {Line(ONE), Line(TWO), Line(HELLO), Line(BYE), Line(<<>>)}
      [] p = "TestNoBranch" -> {Line(ONE), Line(TWO), Line(<<>>)}
      [] p = "TestFunc" -> {Line(<<>>), Line(Y), Line(ArrowUp)}
      [] p = "TestFuncTimeout" -> {Line(ArrowUp), Line(Y)}
      [] p = "TestAsk" -> {Line(<<>>), Line(ROBOT), Line(<<" ">>), Line(EXIT), Line(QUIT)}
      [] p = "TestAskInt" ->
            {Line(BAD), Line(<<"1", "7">>), Line(<<"-", "4">>), Line(<<>>),
             Line(<<"1", "x">>), Line(ArrowDown)}
      [] p = "TestThenDisplay" -> {Line(Y)}
      [] p = "TestSmallBuffer" -> {Line(Y)}
      [] p = "Forecast" ->
            {Line(<<"w", "e", "t">>), Line(<<"d", "r", "y">>), Line(<<>>), Line(ArrowUp)}
      [] p = "Version" -> {Line(Y), Line(N), Line(<<"2">>), Line(<<"+", "0", "3">>), Line(BAD)}
      [] p = "ExecErrors" -> {Line(ONE), Line(TWO), Line(N), Line(ArrowUp)}
      [] p = "Deadlines" -> {Line(ONE), Line(TWO)}
      [] p = "SmallBufferAwait" -> {Line(Y), Line(BAD), Line(<<>>)}
      [] p = "ZeroBuffer" -> {Line(Y)}
      [] p = "Again" -> {Line(Y), Line(N)}
      [] p = "Twice" -> {Line(Y), Line(N)}
      [] p = "Nameless" -> {Line(<<>>), Line(N)}
      [] p = "Ticks" -> {Line(ONE), Line(TWO), Line(N)}

\* the Shell the host program has built when it calls Start()
Built(p) == ApplyCalls(NewShell, Script(p))

-----------------------------------------------------------------------------
(* The session: what the operations of Shell compute.                       *)

\* a BufferObject (Time is left out: nothing reads it)
BufferObject(in, o, hidden) == [In |-> in, Out |-> o, hidden |-> hidden]

\* Shell.shellOutput's eviction removes Buffer.Back(), which is nil when the
\* buffer is empty: list.Remove(nil) panics
EvictPanics(buf, size) == Len(buf) >= size /\ Len(buf) = 0

\* shellOutput when it removes the Front() instead
shellOutput_EvictsNewest(buf, size, b) ==
    <<b>> \o (IF Len(buf) >= size THEN Tail(buf) ELSE buf)

\* Shell.shellOutput: the buffer after it
shellOutput(buf, size, b) ==
    <<b>> \o (IF Len(buf) >= size THEN SubSeq(buf, 1, Len(buf) - 1) ELSE buf)

RECURSIVE shellOutputs(_, _, _)
\* several shellOutput calls in a row
shellOutputs(buf, size, bs) ==
    IF bs = <<>> THEN buf
    ELSE shellOutputs(shellOutput(buf, size, Head(bs)), size, Tail(bs))

RECURSIVE lastCommand(_)
\* Shell.lastCommand
lastCommand(buf) ==
    IF buf = <<>> THEN <<>>
    ELSE IF Len(Head(buf).In) < 1 THEN lastCommand(Tail(buf))
    ELSE Head(buf).In

\* special when it knows the recall sequence only
special_RecallOnly(userInput, buf) ==
    IF Len(userInput) >= 3 /\ userInput[1] = ESC /\ userInput[2] = "[" /\ userInput[3] = "A"
    THEN lastCommand(buf) ELSE userInput

\* Shell.special
special(userInput, buf) ==
    IF Len(userInput) >= 3 /\ userInput[1] = ESC /\ userInput[2] = "["
    THEN IF userInput[3] = "A" THEN lastCommand(buf) ELSE <<>>
    ELSE userInput

\* Shell.emptyUserInput: whether it substitutes the default
SubstitutesDefault(userInput, awaiting, def) ==
    awaiting = "" /\ Len(TrimSuffixNL(userInput)) < 1 /\ Len(def) > 0

\* emptyUserInput when it leaves an empty line empty
emptyUserInput_NoDefault(userInput, awaiting, def) == TrimSuffixNL(userInput)

\* Shell.emptyUserInput: the token after it
emptyUserInput(userInput, awaiting, def) ==
    IF SubstitutesDefault(userInput, awaiting, def) THEN def ELSE TrimSuffixNL(userInput)

\* Shell.waitForInput after a successful read: the token it publishes
Published(line, buf, awaiting, def) ==
    emptyUserInput(special(sanitize(line), buf), awaiting, def)

\* the text Shell.instruct shows
Instruction(node) ==
    <<"> ">> \o node.Instruction \o <<" [options: ">> \o Join(node.BaseCommands, ", ")
       \o <<"]">>
       \o (IF Len(node.Default) > 0 THEN <<" (default '">> \o node.Default \o <<"')">>
           ELSE <<>>)

\* Shell.emptyFlow
emptyFlow(node) == Cardinality(DOMAIN node.Flows) < 1

\* Shell.instruct: the records it emits
instruct(node, awaiting) ==
    IF emptyFlow(node) \/ awaiting # "" THEN <<>>
    ELSE <<BufferObject(<<>>, Instruction(node), FALSE)>>

\* Shell.badCommand: the record it emits
badCommand(cmd) ==
    BufferObject(cmd, <<"> unrecognised command '">> \o RemoveAll(cmd, NL) \o <<"'">>, FALSE)

\* Shell.flowCommand: whether the command names a child
flowCommand(node, cmd) == cmd \in DOMAIN node.Flows

\* handleCommand when only exit ends the session
handleCommand_NoQuit(node, cmd) ==
    IF cmd = errorUUID THEN "retry"
    ELSE IF cmd = EXIT THEN "exit"
    ELSE IF cmd = exitUUID THEN "rerun"
    ELSE IF cmd \in DOMAIN node.Flows THEN "move"
    ELSE "bad"

\* handleCommand when a command that names no child is dropped without a word
handleCommand_Silent(node, cmd) ==
    IF cmd = errorUUID THEN "retry"
    ELSE IF cmd = QUIT \/ cmd = EXIT THEN "exit"
    ELSE IF cmd = exitUUID THEN "rerun"
    ELSE IF cmd \in DOMAIN node.Flows THEN "move"
    ELSE "retry"

\* what Shell.handleCommand does with a command:
\* "retry" (false), "exit" (it calls exit), "rerun" (true, same node),
\* "move" (true, the child is current), "bad" (badCommand, false)
handleCommand(node, cmd) ==
    IF cmd = errorUUID THEN "retry"
    ELSE IF cmd = QUIT \/ cmd = EXIT THEN "exit"
    ELSE IF cmd = exitUUID THEN "rerun"
    ELSE IF flowCommand(node, cmd) THEN "move"
    ELSE "bad"

\* handleAnswer when it takes an empty answer too
handleAnswer_AcceptsEmpty(cmd) ==
    IF cmd = exitUUID THEN [ok |-> TRUE, stores |-> FALSE]
    ELSE [ok |-> TRUE, stores |-> TRUE]

\* handleAnswer when it turns the reserved words away
handleAnswer_NoReserved(cmd) ==
    IF cmd = exitUUID THEN [ok |-> TRUE, stores |-> FALSE]
    ELSE IF Len(cmd) < 1 \/ cmd \in {EXIT, QUIT} THEN [ok |-> FALSE, stores |-> FALSE]
    ELSE [ok |-> TRUE, stores |-> TRUE]

\* Shell.handleAnswer: its result and whether it stores the answer
handleAnswer(cmd) ==
    IF cmd = exitUUID THEN [ok |-> TRUE, stores |-> FALSE]
    ELSE IF Len(cmd) < 1 THEN [ok |-> FALSE, stores |-> FALSE]
    ELSE [ok |-> TRUE, stores |-> TRUE]

\* handleIntAnswer when it goes on to Atoi whatever handleAnswer returned
handleIntAnswer_Always(cmd) ==
    IF ~AtoiOk(cmd)
    THEN [ok |-> FALSE, stores |-> handleAnswer(cmd).stores, storesInt |-> FALSE,
          hint |-> TRUE]
    ELSE [ok |-> TRUE, stores |-> handleAnswer(cmd).stores, storesInt |-> TRUE,
          hint |-> FALSE]

\* Shell.handleIntAnswer: its result, what it stores and whether it shows the hint
handleIntAnswer(cmd) ==
    LET a == handleAnswer(cmd) IN
    IF ~a.ok THEN [ok |-> FALSE, stores |-> FALSE, storesInt |-> FALSE, hint |-> FALSE]
    ELSE IF ~AtoiOk(cmd)
         THEN [ok |-> FALSE, stores |-> a.stores, storesInt |-> FALSE, hint |-> TRUE]
         ELSE [ok |-> TRUE, stores |-> a.stores, storesInt |-> TRUE, hint |-> FALSE]

\* strconv.ParseFloat on the decimal notation the lines of the model use: an
\* optional sign, digits, at most one point, at least one digit
RECURSIVE CountOf(_, _)
CountOf(s, c) ==
    IF s = <<>> THEN 0 ELSE (IF Head(s) = c THEN 1 ELSE 0) + CountOf(Tail(s), c)

Unsigned(s) == IF s # <<>> /\ Head(s) \in {"+", "-"} THEN Tail(s) ELSE s

ParseFloatOk(s) ==
    /\ CountOf(Unsigned(s), ".") <= 1
    /\ AllDigits(RemoveAll(Unsigned(s), "."))

\* the value: the digits as an integer and the number of digits after the point
ParseFloat(s) ==
    LET u == Unsigned(s)
        digits == RemoveAll(u, ".")
        point == CHOOSE i \in 1..(Len(u) + 1) : i = Len(u) + 1 \/ u[i] = "."
        mag == DecVal(digits, 0)
    IN [num |-> IF Head(s) = "-" THEN 0 - mag ELSE mag,
        frac |-> IF point > Len(u) THEN 0 ELSE Len(u) - point]

\* Shell.handleFloatAnswer: as handleIntAnswer
handleFloatAnswer(cmd) ==
    LET a == handleAnswer(cmd) IN
    IF ~a.ok THEN [ok |-> FALSE, stores |-> FALSE, storesFloat |-> FALSE, hint |-> FALSE]
    ELSE IF ~ParseFloatOk(cmd)
         THEN [ok |-> FALSE, stores |-> a.stores, storesFloat |-> FALSE, hint |-> TRUE]
         ELSE [ok |-> TRUE, stores |-> a.stores, storesFloat |-> TRUE, hint |-> FALSE]

IntHint == BufferObject(<<"int_conversion">>, <<"> Please enter an integer e.g. 34">>, FALSE)
FloatHint == BufferObject(<<"float_conversion">>, <<"> Please enter a number e.g. 3.1415">>, FALSE)
ExitMessage == BufferObject(<<>>, <<"> exiting...">>, FALSE)

\* the record ThenQuit's event displays
QuitMessage(msg) == BufferObject(<<>>, <<"> ">> \o msg, FALSE)

\* the record when the display function was called once, before any answer
DisplayMessage_AtConfiguration(d, q, iq) ==
    BufferObject(<<"display_event">>,
                 <<"> ">> \o DisplayFunc(d, [k \in {} |-> <<>>], [k \in {} |-> 0]), FALSE)

\* the record ThenDisplay's event emits
DisplayMessage(d, q, iq) ==
    BufferObject(<<"display_event">>, <<"> ">> \o DisplayFunc(d, q, iq), FALSE)

\* the record Shell.bufferError emits for an error it shows
ErrorMessage(err) ==
    BufferObject(errorUUID, <<"> An error occured (">> \o err \o <<")">>, TRUE)

\* list.Front of a node's events, as an index (0 is nil)
Front(node) == IF node.Events = <<>> THEN 0 ELSE 1

\* a nextEvent that passes over one element
nextEvent_SkipsOne(node, e) == IF e + 1 < Len(node.Events) THEN e + 2 ELSE 0

\* Shell.nextEvent: every element of Events is an EventFunc
nextEvent(node, e) == IF e < Len(node.Events) THEN e + 1 ELSE 0

-----------------------------------------------------------------------------
(* The state machine. *)

\* no element of the Buffer
NoElement == -1

NoJitter ==
    [alive |-> FALSE, phase |-> "none", count |-> 0, pos |-> 0, waitFor |-> 0,
     message |-> <<>>, ctxDone |-> FALSE, jitterEnded |-> 0, now |-> 0]

NoCallback == [f |-> "", running |-> FALSE, start |-> 0, err |-> <<>>]

NoDispatch ==
    [raw |-> <<>>, token |-> <<>>, node |-> 0, mode |-> "none", key |-> "", ok |-> FALSE]

\* the state when the host program calls Start(): NewShell() and the builder
\* calls have run; a builder call that panicked has ended the process
Init ==
    /\ prog \in Programs
    /\ heap = Built(prog).heap
    /\ flow = Built(prog).flow
    /\ command = Built(prog).command
    /\ branches = Built(prog).branches
    /\ bufferSize = Built(prog).bufferSize
    /\ panicked = Built(prog).panicked
    /\ Buffer = <<>>
    /\ awaitingAnswer = ""
    /\ qas = [k \in {} |-> <<>>]
    /\ intQas = [k \in {} |-> 0]
    /\ floatQas = [k \in {} |-> 0]
    /\ exited = FALSE
    /\ cancel = "open"
    /\ OsInterrupt = 0
    /\ pc = "greeting"
    /\ ev = 0
    /\ startPc = "waiting"
    /\ startBack = NoElement
    /\ readers = <<>>
    /\ LastCaptured = <<>>
    /\ jit = NoJitter
    /\ cb = NoCallback
    /\ deferred = 0
    /\ message = <<>>
    /\ out = <<>>
    /\ last = NoDispatch
    /\ inputs = 0
    /\ signals = 0

gBuilder == <<heap, flow, command, branches, bufferSize>>
gAnswers == <<awaitingAnswer, qas, intQas, floatQas>>
gExec == <<jit, cb, message, deferred>>
gStart == <<startPc, startBack>>
gEnv == <<inputs, signals, prog>>

\* the current node
Node == heap[flow]
\* the event runEvents is about to call
Ev == Node.Events[ev]

\* shellOutput called for each of bs by goroutine `by`; the process panics
\* when the eviction does, or when alsoPanics says it has for another reason
Emit(bs, by, alsoPanics) ==
    LET evict == bs # <<>> /\ EvictPanics(Buffer, bufferSize) IN
    /\ Buffer' = IF evict THEN Buffer ELSE shellOutputs(Buffer, bufferSize, bs)
    /\ out' = IF evict THEN out
              ELSE out \o [i \in 1..Len(bs) |-> [rec |-> bs[i], by |-> by]]
    /\ panicked' = (evict \/ alsoPanics)

\* Shell.exit: close(s.cancel), which panics on a closed channel; the caller
\* then waits on s.quit, which nothing closes or sends to
ClosePanics == cancel = "closed"

\* running(): the greeting, then runEvents takes the Front of the root's events
Running ==
    /\ ~panicked /\ pc = "greeting"
    /\ pc' = "run"
    /\ ev' = Front(Node)
    /\ UNCHANGED <<gBuilder, gAnswers, gExec, gEnv, Buffer, out, panicked, exited,
                   cancel, OsInterrupt, gStart, readers, LastCaptured, last>>

\* runEvents when it only returns once there is no event left
RunEventsEnd_Returns ==
    /\ ~panicked /\ pc = "run" /\ ev = 0
    /\ pc' = "blocked"
    /\ UNCHANGED <<gBuilder, gAnswers, gExec, gEnv, Buffer, out, exited, ev, cancel,
                   panicked, OsInterrupt, gStart, readers, LastCaptured, last>>

\* runEvents with e == nil: <-s.exit()
RunEventsEnd ==
    /\ ~panicked /\ pc = "run" /\ ev = 0
    /\ cancel' = "closed"
    /\ panicked' = ClosePanics
    /\ pc' = "blocked"
    /\ UNCHANGED <<gBuilder, gAnswers, gExec, gEnv, Buffer, out, exited, ev,
                   OsInterrupt, gStart, readers, LastCaptured, last>>

\* the event of ThenDisplay
FireDisplay ==
    /\ ~panicked /\ pc = "run" /\ ev # 0 /\ Ev.kind = "display"
    /\ Emit(<<DisplayMessage(Ev.fn, qas, intQas)>>, "session", FALSE)
    /\ ev' = nextEvent(Node, ev)
    /\ UNCHANGED <<gBuilder, gAnswers, gExec, gEnv, exited, cancel, pc,
                   OsInterrupt, gStart, readers, LastCaptured, last>>

\* the event of ThenQuit when <-s.exit() returns and the event returns nil
FireQuit_Returns ==
    /\ ~panicked /\ pc = "run" /\ ev # 0 /\ Ev.kind = "quit"
    /\ Emit(<<QuitMessage(Ev.text)>>, "session", ClosePanics)
    /\ exited' = TRUE
    /\ cancel' = "closed"
    /\ pc' = "run"
    /\ ev' = 0
    /\ UNCHANGED <<gBuilder, gAnswers, gExec, gEnv,
                   OsInterrupt, gStart, readers, LastCaptured, last>>

\* the event of ThenQuit
FireQuit ==
    /\ ~panicked /\ pc = "run" /\ ev # 0 /\ Ev.kind = "quit"
    /\ Emit(<<QuitMessage(Ev.text)>>, "session", ClosePanics)
    /\ exited' = TRUE
    /\ cancel' = "closed"
    /\ pc' = "blocked"
    /\ UNCHANGED <<gBuilder, gAnswers, gExec, gEnv, ev,
                   OsInterrupt, gStart, readers, LastCaptured, last>>

\* the builder state a closure called from an event starts from
AtEvent(instruction) ==
    [heap |-> [heap EXCEPT ![flow].Instruction = instruction], flow |-> flow,
     command |-> <<>>, branches |-> branches, bufferSize |-> bufferSize,
     panicked |-> FALSE]

\* the events of ThenBranch and GoTo: the instruction is replaced, the closure
\* runs the builder on the current node, and runEvents goes on with the next
\* event, which the closure may have appended.  Calling a nil closure panics.
FireBranch ==
    /\ ~panicked /\ pc = "run" /\ ev # 0 /\ Ev.kind \in {"branch", "goto"}
    /\ LET b == IF Ev.fn = "nil" THEN AtEvent(Ev.text)
                ELSE ApplyCalls(AtEvent(Ev.text), Closure(Ev.fn))
       IN /\ heap' = b.heap
          /\ command' = b.command
          /\ branches' = b.branches
          /\ bufferSize' = b.bufferSize
          /\ panicked' = (b.panicked \/ Ev.fn = "nil")
          /\ ev' = nextEvent(b.heap[flow], ev)
    /\ UNCHANGED <<flow, gAnswers, gExec, gEnv, Buffer, out, exited, cancel, pc,
                   OsInterrupt, gStart, readers, LastCaptured, last>>

\* the event of IfUserInputs enters awaitAnyInput(s.handleCommand, "")
FireAwait ==
    /\ ~panicked /\ pc = "run" /\ ev # 0 /\ Ev.kind = "await"
    /\ pc' = "spawn"
    /\ UNCHANGED <<gBuilder, gAnswers, gExec, gEnv, Buffer, out, panicked, exited,
                   cancel, ev, OsInterrupt, gStart, readers, LastCaptured, last>>

\* the event of ask sets awaitingAnswer and enters awaitAnyInput(handler, question)
FireAsk ==
    /\ ~panicked /\ pc = "run" /\ ev # 0 /\ Ev.kind = "ask"
    /\ awaitingAnswer' = Ev.key
    /\ pc' = "spawn"
    /\ UNCHANGED <<gBuilder, qas, intQas, floatQas, gExec, gEnv, Buffer, out, panicked,
                   exited, cancel, ev, OsInterrupt, gStart, readers, LastCaptured, last>>

\* awaitAnyInput's loop when it starts a reader before and after the question
Spawn_Twice ==
    /\ ~panicked /\ pc = "spawn"
    /\ readers' = readers \o << [pc |-> "instruct", raw |-> <<>>, token |-> <<>>],
                                [pc |-> "instruct", raw |-> <<>>, token |-> <<>>] >>
    /\ pc' = IF Ev.kind = "ask" THEN "question" ELSE "select"
    /\ UNCHANGED <<gBuilder, gAnswers, gExec, gEnv, Buffer, out, panicked, exited,
                   cancel, ev, OsInterrupt, gStart, LastCaptured, last>>

\* awaitAnyInput's loop: go s.waitForInput()
Spawn ==
    /\ ~panicked /\ pc = "spawn"
    /\ readers' = Append(readers, [pc |-> "instruct", raw |-> <<>>, token |-> <<>>])
    /\ pc' = IF Ev.kind = "ask" THEN "question" ELSE "select"
    /\ UNCHANGED <<gBuilder, gAnswers, gExec, gEnv, Buffer, out, panicked, exited,
                   cancel, ev, OsInterrupt, gStart, LastCaptured, last>>

\* awaitAnyInput's loop: the question, when there is one
Question ==
    /\ ~panicked /\ pc = "question"
    /\ Emit(<<BufferObject(<<>>, <<"> ">> \o Ev.text, FALSE)>>, "session", FALSE)
    /\ pc' = "select"
    /\ UNCHANGED <<gBuilder, gAnswers, gExec, gEnv, exited, cancel, ev,
                   OsInterrupt, gStart, readers, LastCaptured, last>>

\* awaitAnyInput's select takes the interrupt: the event calls <-s.exit()
SelectInterrupt ==
    /\ ~panicked /\ pc = "select" /\ OsInterrupt > 0
    /\ OsInterrupt' = OsInterrupt - 1
    /\ cancel' = "closed"
    /\ panicked' = ClosePanics
    /\ pc' = "blocked"
    /\ UNCHANGED <<gBuilder, gAnswers, gExec, gEnv, Buffer, out, exited, ev,
                   gStart, readers, LastCaptured, last>>

\* what the handler of an ask event does with a token
Answer(handler, t) ==
    CASE handler = "any" ->
            [ok |-> handleAnswer(t).ok, stores |-> handleAnswer(t).stores,
             storesInt |-> FALSE, storesFloat |-> FALSE, hint |-> <<>>]
      [] handler = "int" ->
            [ok |-> handleIntAnswer(t).ok, stores |-> handleIntAnswer(t).stores,
             storesInt |-> handleIntAnswer(t).storesInt, storesFloat |-> FALSE,
             hint |-> IF handleIntAnswer(t).hint THEN <<IntHint>> ELSE <<>>]
      [] handler = "float" ->
            [ok |-> handleFloatAnswer(t).ok, stores |-> handleFloatAnswer(t).stores,
             storesInt |-> FALSE, storesFloat |-> handleFloatAnswer(t).storesFloat,
             hint |-> IF handleFloatAnswer(t).hint THEN <<FloatHint>> ELSE <<>>]

\* whether the handler of the current event returns true for token t
Accepts(t) ==
    IF Ev.kind = "await" THEN handleCommand(Node, t) \in {"rerun", "move"}
    ELSE Answer(Ev.fn, t).ok

\* DispatchCommand when "back" makes the root current again
DispatchCommand_GoesBack(t) ==
    LET r == handleCommand(Node, t) IN
    /\ flow' = IF r = "move" THEN Node.Flows[t] ELSE IF t = BACK THEN 1 ELSE flow
    /\ ev' = IF r = "move" THEN Front(heap[Node.Flows[t]])
             ELSE IF r = "rerun" THEN Front(Node) ELSE ev
    /\ pc' = IF r \in {"retry", "bad"} THEN "spawn"
             ELSE IF r = "exit" THEN "blocked" ELSE "run"
    /\ cancel' = IF r = "exit" THEN "closed" ELSE cancel
    /\ Emit(IF r = "bad" THEN <<badCommand(t)>> ELSE <<>>, "session",
            r = "exit" /\ ClosePanics)
    /\ UNCHANGED <<heap, command, branches, bufferSize, gAnswers>>

\* DispatchCommand when the nested runEvents is left out: the child is current
\* and none of its events runs
DispatchCommand_NoRunEvents(t) ==
    LET r == handleCommand(Node, t) IN
    /\ flow' = IF r = "move" THEN Node.Flows[t] ELSE flow
    /\ ev' = IF r = "move" THEN 0
             ELSE IF r = "rerun" THEN Front(Node) ELSE ev
    /\ pc' = IF r \in {"retry", "bad"} THEN "spawn"
             ELSE IF r = "exit" THEN "blocked" ELSE "run"
    /\ cancel' = IF r = "exit" THEN "closed" ELSE cancel
    /\ Emit(IF r = "bad" THEN <<badCommand(t)>> ELSE <<>>, "session",
            r = "exit" /\ ClosePanics)
    /\ UNCHANGED <<heap, command, branches, bufferSize, gAnswers>>

\* f is s.handleCommand: on true the event of IfUserInputs calls s.runEvents(),
\* which starts at the Front of the node that is current then
DispatchCommand(t) ==
    LET r == handleCommand(Node, t) IN
    /\ flow' = IF r = "move" THEN Node.Flows[t] ELSE flow
    /\ ev' = IF r = "move" THEN Front(heap[Node.Flows[t]])
             ELSE IF r = "rerun" THEN Front(Node) ELSE ev
    /\ pc' = IF r \in {"retry", "bad"} THEN "spawn"
             ELSE IF r = "exit" THEN "blocked" ELSE "run"
    /\ cancel' = IF r = "exit" THEN "closed" ELSE cancel
    /\ Emit(IF r = "bad" THEN <<badCommand(t)>> ELSE <<>>, "session",
            r = "exit" /\ ClosePanics)
    /\ UNCHANGED <<heap, command, branches, bufferSize, gAnswers>>

\* f is the handler of an ask event: on true awaitAnyInput returns, the
\* deferred function clears awaitingAnswer and runEvents goes on
DispatchAnswer(t) ==
    LET a == Answer(Ev.fn, t) IN
    /\ qas' = IF a.stores THEN (awaitingAnswer :> t) @@ qas ELSE qas
    /\ intQas' = IF a.storesInt THEN (awaitingAnswer :> Atoi(t)) @@ intQas ELSE intQas
    /\ floatQas' = IF a.storesFloat THEN (awaitingAnswer :> ParseFloat(t)) @@ floatQas
                   ELSE floatQas
    /\ awaitingAnswer' = IF a.ok THEN "" ELSE awaitingAnswer
    /\ ev' = IF a.ok THEN nextEvent(Node, ev) ELSE ev
    /\ pc' = IF a.ok THEN "run" ELSE "spawn"
    /\ Emit(a.hint, "session", FALSE)
    /\ UNCHANGED <<gBuilder, cancel>>

\* the sequence s without its i-th element
Without(s, i) == SubSeq(s, 1, i - 1) \o SubSeq(s, i + 1, Len(s))

\* awaitAnyInput's select takes the token reader i sends on UserInput, and
\* calls f on it; false loops
SelectInput(i) ==
    /\ ~panicked /\ pc = "select"
    /\ readers[i].pc = "send"
    /\ readers' = Without(readers, i)
    /\ last' = [raw |-> readers[i].raw, token |-> readers[i].token, node |-> flow,
                mode |-> IF Ev.kind = "await" THEN "command" ELSE Ev.fn,
                key |-> awaitingAnswer, ok |-> Accepts(readers[i].token)]
    /\ IF Ev.kind = "await" THEN DispatchCommand(readers[i].token)
       ELSE DispatchAnswer(readers[i].token)
    /\ UNCHANGED <<gExec, gEnv, exited, OsInterrupt, gStart, LastCaptured>>

\* waitForInput: s.instruct()
Instruct(i) ==
    /\ ~panicked
    /\ readers[i].pc = "instruct"
    /\ Emit(instruct(Node, awaitingAnswer), "reader", FALSE)
    /\ readers' = [readers EXCEPT ![i].pc = "read"]
    /\ UNCHANGED <<gBuilder, gAnswers, gExec, gEnv, exited, cancel, pc, ev,
                   OsInterrupt, gStart, LastCaptured, last>>

\* waitForInput: ReadString returns a line the user has typed; sanitize,
\* capture, special and emptyUserInput make the token of it, and the reader
\* goes on to send it.  (ReadString returns an error only with no newline
\* read, so the "carriage_return" error of waitForInput cannot arise.)
ReadLine(i, line) ==
    /\ ~panicked
    /\ readers[i].pc = "read"
    /\ inputs < MaxInputs
    /\ inputs' = inputs + 1
    /\ LastCaptured' = <<sanitize(line)>>
    /\ Emit(IF SubstitutesDefault(special(sanitize(line), Buffer), awaitingAnswer,
                                  Node.Default)
            THEN <<BufferObject(Node.Default, Node.Default, FALSE)>> ELSE <<>>,
            "reader", FALSE)
    /\ readers' = [readers EXCEPT ![i] =
           [pc |-> "send", raw |-> line,
            token |-> Published(line, Buffer, awaitingAnswer, Node.Default)]]
    /\ UNCHANGED <<gBuilder, gAnswers, gExec, signals, prog, exited, cancel, pc, ev,
                   OsInterrupt, gStart, last>>

\* ReadEOF when bufferError shows the error "EOF" like any other
ReadEOF_Shown(i) ==
    /\ ~panicked
    /\ readers[i].pc = "read"
    /\ readers' = Without(readers, i)
    /\ Emit(<<ErrorMessage(<<"EOF">>)>>, "reader", FALSE)
    /\ UNCHANGED <<gBuilder, gAnswers, gExec, gEnv, exited, cancel, pc, ev,
                   OsInterrupt, gStart, LastCaptured, last>>

\* waitForInput: ReadString meets the end of the input; bufferError drops
\* the error "EOF" and the goroutine ends
ReadEOF(i) ==
    /\ ~panicked
    /\ readers[i].pc = "read"
    /\ readers' = Without(readers, i)
    /\ UNCHANGED <<gBuilder, gAnswers, gExec, gEnv, Buffer, out, panicked, exited,
                   cancel, pc, ev, OsInterrupt, gStart, LastCaptured, last>>

\* the operating system delivers an interrupt: signal.Notify sends without
\* blocking on the channel of capacity 1
Interrupt ==
    /\ ~panicked
    /\ signals < MaxSignals
    /\ signals' = signals + 1
    /\ OsInterrupt' = IF OsInterrupt < 1 THEN OsInterrupt + 1 ELSE OsInterrupt
    /\ UNCHANGED <<gBuilder, gAnswers, gExec, inputs, prog, Buffer, out, panicked,
                   exited, cancel, pc, ev, gStart, readers, LastCaptured, last>>

\* Start(): <-s.cancel, then Display's shellOutput up to e := s.Buffer.Back().
\* The goroutine that called Start() and a waitForInput goroutine may both be
\* in shellOutput, which nothing serialises, so this call is taken in two
\* steps and a reader's may fall between them.  The element e is remembered
\* as the number of records made when it was the Back: a record made since
\* has evicted it.
StartDisplay ==
    /\ ~panicked /\ startPc = "waiting" /\ cancel = "closed"
    /\ startPc' = "output"
    /\ startBack' = IF Len(Buffer) >= bufferSize THEN Len(out) ELSE NoElement
    /\ panicked' = EvictPanics(Buffer, bufferSize)
    /\ UNCHANGED <<gBuilder, gAnswers, gExec, gEnv, Buffer, out, exited, cancel, pc,
                   ev, OsInterrupt, readers, LastCaptured, last>>

\* the rest of that shellOutput, s.Buffer.Remove(e), which removes nothing
\* when e is in the list no more, and PushFront; s.writer.Stop(); return
StartReturns ==
    /\ ~panicked /\ startPc = "output"
    /\ Buffer' = <<ExitMessage>> \o (IF startBack = Len(out)
                                     THEN SubSeq(Buffer, 1, Len(Buffer) - 1)
                                     ELSE Buffer)
    /\ out' = Append(out, [rec |-> ExitMessage, by |-> "start"])
    /\ startPc' = "done"
    /\ startBack' = NoElement
    /\ UNCHANGED <<gBuilder, gAnswers, gExec, gEnv, exited, cancel, pc, ev, panicked,
                   OsInterrupt, readers, LastCaptured, last>>

-----------------------------------------------------------------------------
(* runExec, runFunc and the jitter.  Time is counted in the jitter (now, in  *)
(* ms since runFunc began) and passes only in the two places where the       *)
(* jitter goroutine waits for it: the first tick of its ticker, and the      *)
(* Sleep of loadScreen, after which the next tick is already due.  A         *)
(* goroutine that can take a step takes it before time passes.               *)

disp == <<"/", "-", "\\", "|">>

\* when the callback in progress returns
Finish == cb.start + ExecFunc(cb.f).dur

\* whether the clock may reach t before the session goroutine moves
TimeMayPass(t) ==
    /\ pc # "runFunc"
    /\ pc = "callback" => Finish >= t

\* the jitter goroutine is waiting for time to pass
JitterWaits ==
    \/ jit.phase = "sleep"
    \/ jit.phase = "select" /\ jit.count = 0 /\ ~jit.ctxDone

\* the event of ThenRun: runExec calls runFunc, which makes the jitter and
\* starts its goroutine
FireExec ==
    /\ ~panicked /\ pc = "run" /\ ev # 0 /\ Ev.kind = "exec"
    /\ jit' = [alive |-> TRUE, phase |-> "select", count |-> 0, pos |-> 0,
               waitFor |-> Ev.n, message |-> Ev.text, ctxDone |-> FALSE,
               jitterEnded |-> 0, now |-> 0]
    /\ cb' = [f |-> Ev.fn, running |-> FALSE, start |-> 0, err |-> <<>>]
    /\ pc' = "runFunc"
    /\ UNCHANGED <<gBuilder, gAnswers, deferred, message, gEnv, Buffer, out, panicked, exited,
                   cancel, ev, OsInterrupt, gStart, readers, LastCaptured, last>>

\* runFunc's select when it takes ctx.Done() though nothing has cancelled
RunFunc_TakesDone ==
    /\ ~panicked /\ pc = "runFunc"
    /\ cb' = [cb EXCEPT !.err = <<"context canceled">>]
    /\ jit' = [jit EXCEPT !.ctxDone = TRUE]
    /\ pc' = "jitterEnded"
    /\ UNCHANGED <<gBuilder, gAnswers, deferred, message, gEnv, Buffer, out, panicked,
                   exited, cancel, ev, OsInterrupt, gStart, readers, LastCaptured,
                   last>>

\* runFunc's select: ctx.Err() when the context is done already, else the
\* callback is called
RunFunc ==
    /\ ~panicked /\ pc = "runFunc"
    /\ cb' = IF jit.ctxDone THEN [cb EXCEPT !.err = <<"context canceled">>]
             ELSE [cb EXCEPT !.running = TRUE, !.start = jit.now]
    /\ pc' = IF jit.ctxDone THEN "jitterEnded" ELSE "callback"
    /\ UNCHANGED <<gBuilder, gAnswers, deferred, jit, message, gEnv, Buffer, out, panicked,
                   exited, cancel, ev, OsInterrupt, gStart, readers, LastCaptured,
                   last>>

\* what the callback sets message to when it does not return early
Sets(c) ==
    CASE c.sets = "const" -> <<"ran function">>
      [] c.sets = "value" -> <<"you answered: ">> \o GetValue(qas, c.key)
      [] c.sets = "none" -> message

\* the callback returns, and runFunc calls jitter.cancel()
CallbackReturns ==
    /\ ~panicked /\ pc = "callback"
    /\ \/ Finish <= jit.now
       \/ ~jit.alive
       \/ JitterWaits /\ Finish <= jit.now + JITTER_TIME
    /\ LET c == ExecFunc(cb.f)
           early == c.checks /\ jit.ctxDone
       IN /\ message' = IF early THEN message ELSE Sets(c)
          /\ cb' = [cb EXCEPT !.running = FALSE,
                              !.err = IF early THEN c.ctxErr ELSE c.err]
    /\ jit' = [jit EXCEPT !.ctxDone = TRUE]
    /\ pc' = "jitterEnded"
    /\ UNCHANGED <<gBuilder, gAnswers, deferred, gEnv, Buffer, out, panicked, exited, cancel,
                   ev, OsInterrupt, gStart, readers, LastCaptured, last>>

\* runFunc receives from jitterEnded and returns the error; runExec hands a
\* non-nil error to bufferError, which drops "EOF", sends "" on UserInput for
\* "carriage_return" (from the goroutine that is UserInput's only receiver),
\* and shows any other
JitterEnded ==
    /\ ~panicked /\ pc = "jitterEnded" /\ jit.jitterEnded = 1
    /\ Emit(IF cb.err \in {<<>>, <<"EOF">>, <<"carriage_return">>} THEN <<>>
            ELSE <<ErrorMessage(cb.err)>>, "session", FALSE)
    /\ pc' = IF cb.err = <<"carriage_return">> THEN "sendBlank" ELSE "run"
    /\ ev' = IF cb.err = <<"carriage_return">> THEN ev ELSE nextEvent(Node, ev)
    /\ jit' = NoJitter
    /\ cb' = NoCallback
    /\ UNCHANGED <<gBuilder, gAnswers, deferred, message, gEnv, exited, cancel,
                   OsInterrupt, gStart, readers, LastCaptured, last>>

\* the record loadScreen displays
LoadScreen(j) == BufferObject(<<>>, <<"> ">> \o j.message \o <<" ", disp[j.pos + 1]>>, FALSE)
\* jitter.displayError
DisplayError(j) == BufferObject(<<>>, <<"> ">> \o j.message \o <<" ", " ...error">>, FALSE)
\* jitter.displayDone
DisplayDone(j) == BufferObject(<<>>, <<"> ">> \o j.message \o <<" ", " ...done">>, FALSE)

\* jitter's select takes a tick: count, then loadScreen up to its Sleep
JitterTick ==
    /\ ~panicked /\ jit.alive /\ jit.phase = "select"
    /\ \/ jit.count > 0
       \/ ~jit.ctxDone /\ TimeMayPass(jit.now + JITTER_TIME)
    /\ Emit(<<LoadScreen(jit)>>, "jitter", FALSE)
    /\ jit' = [jit EXCEPT !.count = @ + JITTER_TIME,
                          !.pos = IF @ = 3 THEN 0 ELSE @ + 1,
                          !.now = IF jit.count = 0 THEN @ + JITTER_TIME ELSE @,
                          !.phase = "sleep"]
    /\ UNCHANGED <<gBuilder, gAnswers, deferred, cb, message, gEnv, exited, cancel, pc, ev,
                   OsInterrupt, gStart, readers, LastCaptured, last>>

\* JitterSleep when the jitter cancels as soon as the count has reached the
\* deadline
JitterSleep_AtDeadline ==
    /\ ~panicked /\ jit.alive /\ jit.phase = "sleep"
    /\ TimeMayPass(jit.now + JITTER_TIME)
    /\ Emit(IF jit.count >= jit.waitFor THEN <<DisplayError(jit)>> ELSE <<>>, "jitter", FALSE)
    /\ jit' = IF jit.count >= jit.waitFor
              THEN [jit EXCEPT !.now = @ + JITTER_TIME, !.ctxDone = TRUE,
                               !.jitterEnded = 1, !.alive = FALSE, !.phase = "none"]
              ELSE [jit EXCEPT !.now = @ + JITTER_TIME, !.phase = "select"]
    /\ deferred' = IF jit.count >= jit.waitFor THEN deferred + 1 ELSE deferred
    /\ UNCHANGED <<gBuilder, gAnswers, cb, message, gEnv, exited, cancel, pc, ev,
                   OsInterrupt, gStart, readers, LastCaptured, last>>

\* loadScreen's Sleep ends; past the deadline the jitter cancels, shows the
\* error line, sends on jitterEnded and ends
JitterSleep ==
    /\ ~panicked /\ jit.alive /\ jit.phase = "sleep"
    /\ TimeMayPass(jit.now + JITTER_TIME)
    /\ Emit(IF jit.count > jit.waitFor THEN <<DisplayError(jit)>> ELSE <<>>, "jitter", FALSE)
    /\ jit' = IF jit.count > jit.waitFor
              THEN [jit EXCEPT !.now = @ + JITTER_TIME, !.ctxDone = TRUE,
                               !.jitterEnded = 1, !.alive = FALSE, !.phase = "none"]
              ELSE [jit EXCEPT !.now = @ + JITTER_TIME, !.phase = "select"]
    /\ deferred' = IF jit.count > jit.waitFor THEN deferred + 1 ELSE deferred
    /\ UNCHANGED <<gBuilder, gAnswers, cb, message, gEnv, exited, cancel, pc, ev,
                   OsInterrupt, gStart, readers, LastCaptured, last>>

\* jitter's select takes ctx.Done(): the done line, jitterEnded, the end
JitterDone ==
    /\ ~panicked /\ jit.alive /\ jit.phase = "select" /\ jit.ctxDone
    /\ Emit(<<DisplayDone(jit)>>, "jitter", FALSE)
    /\ jit' = [jit EXCEPT !.jitterEnded = 1, !.alive = FALSE, !.phase = "none"]
    /\ deferred' = deferred + 1
    /\ UNCHANGED <<gBuilder, gAnswers, cb, message, gEnv, exited, cancel, pc, ev,
                   OsInterrupt, gStart, readers, LastCaptured, last>>

\* jitter returns after its send on jitterEnded: the deferred load.Stop() and
\* s.writer.Flush() run, and the goroutine is gone
JitterReturns ==
    /\ ~panicked /\ deferred > 0
    /\ deferred' = deferred - 1
    /\ UNCHANGED <<gBuilder, gAnswers, jit, cb, message, gEnv, gStart, Buffer, out,
                   panicked, exited, cancel, pc, ev, OsInterrupt, readers,
                   LastCaptured, last>>

-----------------------------------------------------------------------------

Session ==
    \/ Running \/ RunEventsEnd \/ FireDisplay \/ FireQuit \/ FireBranch
    \/ FireAwait \/ FireAsk \/ Spawn \/ Question \/ SelectInterrupt
    \/ FireExec \/ RunFunc \/ CallbackReturns \/ JitterEnded
    \/ \E i \in 1..Len(readers) : SelectInput(i)

Jitter == JitterTick \/ JitterSleep \/ JitterDone \/ JitterReturns

Reader == \E i \in 1..Len(readers) : Instruct(i)

User ==
    \/ \E i \in 1..Len(readers) : \E line \in Lines(prog) : ReadLine(i, line)
    \/ \E i \in 1..Len(readers) : ReadEOF(i)
    \/ Interrupt

Start == StartDisplay \/ StartReturns

Next == Session \/ Jitter \/ Reader \/ Start \/ User

Spec == Init /\ [][Next]_vars

\* the goroutines of the program are scheduled fairly and a callback returns;
\* nothing makes the user type or interrupt
FairSpec ==
    Spec /\ WF_vars(Session) /\ WF_vars(Jitter) /\ WF_vars(Reader) /\ WF_vars(Start)

-----------------------------------------------------------------------------
(* The History Buffer by itself: a Shell whose bufferSize SetBufferSize has  *)
(* set to any capacity from 1, on which shellOutput is called with the       *)
(* records the session makes, by one goroutine, before Start().              *)

\* the records shellOutput is called with: what instruct, badCommand, a
\* default, a ThenDisplay and bufferError record
Records ==
    { BufferObject(<<>>, <<"> ", "run programme?", " [options: ">> \o YES \o <<"]">>, FALSE),
      badCommand(BAD),
      BufferObject(YES, YES, FALSE),
      DisplayMessage("pointless", qas, intQas),
      ErrorMessage(<<"no bueno">>) }

RecordInit ==
    /\ prog = "TestSmallBuffer"
    /\ heap = Built(prog).heap
    /\ flow = Built(prog).flow
    /\ command = Built(prog).command
    /\ branches = Built(prog).branches
    /\ bufferSize \in 1..MaxCapacity
    /\ panicked = Built(prog).panicked
    /\ Buffer = <<>>
    /\ awaitingAnswer = ""
    /\ qas = [k \in {} |-> <<>>]
    /\ intQas = [k \in {} |-> 0]
    /\ floatQas = [k \in {} |-> 0]
    /\ exited = FALSE
    /\ cancel = "open"
    /\ OsInterrupt = 0
    /\ pc = "greeting"
    /\ ev = 0
    /\ startPc = "waiting"
    /\ startBack = NoElement
    /\ readers = <<>>
    /\ LastCaptured = <<>>
    /\ jit = NoJitter
    /\ cb = NoCallback
    /\ deferred = 0
    /\ message = <<>>
    /\ out = <<>>
    /\ last = NoDispatch
    /\ inputs = 0
    /\ signals = 0

\* waitForShellOutput(b.In, b.Out, false, b.hidden)
Record(b) ==
    /\ ~panicked /\ Len(out) < MaxRecords
    /\ Emit(<<b>>, "session", FALSE)
    /\ UNCHANGED <<gBuilder, gAnswers, gExec, gEnv, gStart, exited, cancel, pc, ev,
                   OsInterrupt, readers, LastCaptured, last>>

RecordNext == \E b \in Records : Record(b)

RecordSpec == RecordInit /\ [][RecordNext]_vars

-----------------------------------------------------------------------------
(* The builder by itself: IfUserInputs called on a new Shell with any        *)
(* tokens, the reserved words among them, and on the children the current    *)
(* node gets, as the closures of ThenBranch and Branch call it once          *)
(* flowCommand has moved s.flow.                                             *)

BuilderTokens == {Y, N, EXIT, QUIT, BACK}

\* the argument lists of a call
BuilderInputs == UNION {[1..n -> BuilderTokens] : n \in 0..MaxTokens}

BuilderInit ==
    /\ prog = "TestThenDisplay"
    /\ heap = NewShell.heap
    /\ flow = NewShell.flow
    /\ command = NewShell.command
    /\ branches = NewShell.branches
    /\ bufferSize = NewShell.bufferSize
    /\ panicked = NewShell.panicked
    /\ Buffer = <<>>
    /\ awaitingAnswer = ""
    /\ qas = [k \in {} |-> <<>>]
    /\ intQas = [k \in {} |-> 0]
    /\ floatQas = [k \in {} |-> 0]
    /\ exited = FALSE
    /\ cancel = "open"
    /\ OsInterrupt = 0
    /\ pc = "greeting"
    /\ ev = 0
    /\ startPc = "waiting"
    /\ startBack = NoElement
    /\ readers = <<>>
    /\ LastCaptured = <<>>
    /\ jit = NoJitter
    /\ cb = NoCallback
    /\ deferred = 0
    /\ message = <<>>
    /\ out = <<>>
    /\ last = NoDispatch
    /\ inputs = 0
    /\ signals = 0

\* the builder state the Shell is in
Builder ==
    [heap |-> heap, flow |-> flow, command |-> command, branches |-> branches,
     bufferSize |-> bufferSize, panicked |-> panicked]

\* s.IfUserInputs(input...)
CallIfUserInputs(input) ==
    /\ ~panicked /\ Len(heap) <= MaxCalls
    /\ LET b == IfUserInputs(Builder, input)
       IN /\ heap' = b.heap
          /\ flow' = b.flow
          /\ command' = b.command
          /\ branches' = b.branches
          /\ bufferSize' = b.bufferSize
          /\ panicked' = b.panicked
    /\ UNCHANGED <<gAnswers, gExec, gEnv, gStart, Buffer, out, exited, cancel, pc, ev,
                   OsInterrupt, readers, LastCaptured, last>>

\* flowCommand makes the child of token t the current node
Descend(t) ==
    /\ ~panicked /\ flowCommand(Node, t)
    /\ flow' = Node.Flows[t]
    /\ UNCHANGED <<heap, command, branches, bufferSize, panicked, gAnswers, gExec,
                   gEnv, gStart, Buffer, out, exited, cancel, pc, ev, OsInterrupt,
                   readers, LastCaptured, last>>

BuilderNext ==
    \/ \E input \in BuilderInputs : CallIfUserInputs(input)
    \/ \E t \in BuilderTokens : Descend(t)

BuilderSpec == BuilderInit /\ [][BuilderNext]_vars

-----------------------------------------------------------------------------
(* What the claims speak of. *)

\* the node has an event of ThenQuit
HasQuit(node) == \E i \in 1..Len(node.Events) : node.Events[i].kind = "quit"

\* the farewell message of the node's first event of ThenQuit
Farewell(node) ==
    node.Events[CHOOSE i \in 1..Len(node.Events) :
                    /\ node.Events[i].kind = "quit"
                    /\ \A j \in 1..(i - 1) : node.Events[j].kind # "quit"].text

\* the farewell messages of all events of ThenQuit there are
Farewells ==
    {heap[n].Events[i].text : <<n, i>> \in
        {x \in (1..Len(heap)) \X (1..10) :
            x[2] <= Len(heap[x[1]].Events) /\ heap[x[1]].Events[x[2]].kind = "quit"}}

IsQuitRecord(o) == o.by = "session" /\ \E t \in Farewells : o.rec = QuitMessage(t)

\* the farewell messages recorded so far, oldest first
QuitRecords == SelectSeq(out, IsQuitRecord)

\* the exit message has been recorded
ExitRecorded == \E i \in 1..Len(out) : out[i].rec = ExitMessage

\* Terminated: exit() has closed cancel, Start() has recorded the exit message
\* and returned
Terminated == cancel = "closed" /\ startPc = "done" /\ ExitRecorded

\* the last token dispatched matched a child, which is the current node
Matched ==
    /\ last.mode = "command" /\ last.ok
    /\ last.token \in DOMAIN heap[last.node].Flows
    /\ flow = heap[last.node].Flows[last.token]

-----------------------------------------------------------------------------
(* C1 *)

\* C1: whenever the last matched node has an event of ThenQuit in its event
\* sequence, the session eventually has recorded that event's farewell
\* message and no other farewell message, and has terminated.
C1_PathReachesItsQuit ==
    [](Matched /\ HasQuit(Node)
        => <>(/\ Matched /\ HasQuit(Node)
              /\ QuitRecords = <<[rec |-> QuitMessage(Farewell(Node)), by |-> "session"]>>
              /\ exited /\ Terminated))

-----------------------------------------------------------------------------
(* C2 *)

\* awaitAnyInput's select receives token t in this step
Receives(t) ==
    /\ pc = "select"
    /\ \E i \in 1..Len(readers) :
          /\ readers[i].pc = "send" /\ readers[i].token = t
          /\ readers' = Without(readers, i)

\* a reader shows the prompt in this step
Prompts ==
    \E i \in 1..Len(readers) :
        /\ readers[i].pc = "instruct"
        /\ Len(readers') = Len(readers) /\ readers'[i].pc = "read"

\* the tokens handleCommand looks for before the children: exit, quit and the
\* two sentinels of the package
Special == {EXIT, QUIT, errorUUID, exitUUID}

Unrecognised(t) ==
    [rec |-> BufferObject(t, <<"> unrecognised command '">> \o t \o <<"'">>, FALSE),
     by |-> "session"]

-----------------------------------------------------------------------------
(* C3 *)

\* the record emptyUserInput adds when it substitutes the default
Echo(def) == [rec |-> BufferObject(def, def, FALSE), by |-> "reader"]

\* the state the session is in after handleCommand has been given token t
AfterCommand(t) ==
    LET r == handleCommand(Node, t) IN
    [flow |-> IF r = "move" THEN Node.Flows[t] ELSE flow,
     ev |-> IF r = "move" THEN Front(heap[Node.Flows[t]]) ELSE ev,
     pc |-> IF r = "move" THEN "run" ELSE IF r = "exit" THEN "blocked" ELSE "spawn",
     cancel |-> IF r = "exit" THEN "closed" ELSE cancel]

\* C3: while the session awaits a command on a node whose default is set, a
\* reader that reads an empty line publishes the token that the default typed
\* literally is published as, which is the default itself, and records the
\* default as the echo; the session then takes, for the empty line, the
\* transition it takes for the default: the same current node, the same
\* event to run next.
C3_EmptyLineIsDefault ==
    [][\A i \in 1..Len(readers) :
         /\ (/\ readers[i].pc = "read" /\ Len(readers') = Len(readers)
             /\ readers'[i].pc = "send" /\ readers'[i].raw = Line(<<>>)
             /\ Ev.kind = "await" /\ Node.Default # <<>>)
            => /\ readers'[i].token = Node.Default
               /\ readers'[i].token
                    = Published(Line(Node.Default), Buffer, awaitingAnswer, Node.Default)
               /\ out' = Append(out, Echo(Node.Default))
         /\ (/\ readers[i].pc = "send" /\ readers[i].raw = Line(<<>>)
             /\ Receives(readers[i].token)
             /\ Ev.kind = "await" /\ Node.Default # <<>>)
            => /\ flow' = AfterCommand(Node.Default).flow
               /\ ev' = AfterCommand(Node.Default).ev
               /\ pc' = AfterCommand(Node.Default).pc
               /\ cancel' = AfterCommand(Node.Default).cancel
               /\ heap' = heap
      ]_vars

\* an empty line has taken the session to the child the default names
C3_Witness ==
    /\ last.mode = "command" /\ last.raw = Line(<<>>) /\ last.ok
    /\ heap[last.node].Default # <<>>
    /\ last.token = heap[last.node].Default
    /\ flow = heap[last.node].Flows[heap[last.node].Default]
    /\ \E i \in 1..Len(out) : out[i] = Echo(heap[last.node].Default)

-----------------------------------------------------------------------------
(* C4 *)

\* C4: when the session, awaiting a command, receives exit or quit, it calls
\* exit() whatever the current node and its children are: cancel is closed,
\* the current node stays, nothing is recorded for the token and nothing
\* panics; and the session then terminates: Start() records "> exiting..."
\* and returns.
C4_ExitAndQuitTerminate ==
    /\ [][\A t \in {EXIT, QUIT} :
            (Receives(t) /\ Ev.kind = "await")
            => /\ cancel = "open" /\ cancel' = "closed" /\ pc' = "blocked"
               /\ flow' = flow /\ heap' = heap /\ out' = out /\ ~panicked']_vars
    /\ [](last.mode = "command" /\ last.token \in {EXIT, QUIT} => <>Terminated)

\* quit has ended a session whose current node is not the root
C4_Witness ==
    /\ last.mode = "command" /\ last.token = QUIT /\ last.node # 1
    /\ flow = last.node /\ Terminated
    /\ out[Len(out)].rec = ExitMessage

-----------------------------------------------------------------------------
(* C5 *)

\* C5: once an interrupt has been delivered, in whatever state the session
\* was (awaiting a command, awaiting an answer, running events), the session
\* eventually is terminated, with the exit message recorded.
C5_InterruptIsFatal == [](signals > 0 => <>Terminated)

-----------------------------------------------------------------------------
(* C6 *)

\* runEvents, in a process that has not crashed, has no event left to call
Exhausted == ~panicked /\ pc = "run" /\ ev = 0

\* C6: when runEvents has no event left to call, the session ends by itself:
\* its next step closes cancel, which was open, without a panic and without
\* recording anything, and then Start() records the exit message and returns.
C6_ExhaustedSequenceTerminates ==
    /\ [][(Exhausted /\ pc' # pc)
            => /\ cancel = "open" /\ cancel' = "closed" /\ ~panicked'
               /\ out' = out /\ exited' = exited]_vars
    /\ [](Exhausted => <>Terminated)

\* a session has ended with no Quit event, no exit or quit token and no
\* interrupt: its events ran out
C6_Witness ==
    /\ Terminated /\ ~exited /\ ev = 0 /\ pc = "blocked"
    /\ signals = 0 /\ last.token \notin {EXIT, QUIT}
    /\ \E i \in 1..Len(out) : out[i].rec.In = <<"display_event">>

-----------------------------------------------------------------------------
(* C7 *)

\* the event of a GoTo that found no branch: its closure is nil
NilGoTo(e) == e.kind = "goto" /\ e.fn = "nil"

\* the event of ThenQuit("branch '<name>' not found")
NotFoundQuit(e) ==
    /\ e.kind = "quit" /\ Len(e.text) = 3
    /\ e.text[1] = "branch '" /\ e.text[3] = "' not found"

\* the current node has the event of a GoTo that found no branch
VisitsNilGoTo == \E i \in 1..Len(Node.Events) : NilGoTo(Node.Events[i])

\* C7: the event of a GoTo that found no branch always follows, in its
\* node's sequence, an event of ThenQuit carrying "branch '<name>' not
\* found"; runEvents never reaches the GoTo's event, so that the nil closure
\* is never called, and nothing in a session of such a configuration
\* panics; and once a token has led to such a node, the session records
\* "> branch '<name>' not found" as the only farewell message and terminates.
C7_MissingBranchQuits ==
    /\ [](\A n \in 1..Len(heap) : \A i \in 1..Len(heap[n].Events) :
                NilGoTo(heap[n].Events[i])
                => /\ ~panicked
                   /\ i > 1 /\ NotFoundQuit(heap[n].Events[i - 1])
                   /\ ~(flow = n /\ ev = i))
    /\ [](Matched /\ VisitsNilGoTo
            => <>(/\ Terminated /\ exited /\ ~panicked
                  /\ Len(QuitRecords) = 1
                  /\ QuitRecords[1].rec.Out = <<"> ">> \o Farewell(Node)
                  /\ Len(Farewell(Node)) = 3
                  /\ Farewell(Node)[1] = "branch '" /\ Farewell(Node)[3] = "' not found"))

\* the token one has led to the node whose GoTo named the missing
\* branch_one, and the session has ended with the message
C7_Witness ==
    /\ prog = "TestNoBranch" /\ Matched /\ last.token = ONE /\ VisitsNilGoTo
    /\ Terminated /\ ~panicked
    /\ \E i \in 1..Len(out) :
          out[i].rec.Out = <<"> ", "branch '", "branch_one", "' not found">>

-----------------------------------------------------------------------------
(* C8 *)

\* the session, at the event of an AskForInt, receives token t in this step
ReceivesInt(t) == Receives(t) /\ Ev.kind = "ask" /\ Ev.fn = "int"

IntHintRecord == [rec |-> IntHint, by |-> "session"]

\* the event of AskForInt goes on to the next event with the integer stored
AdvancesWith(t) ==
    /\ pc' = "run" /\ ev' = nextEvent(Node, ev)
    /\ GetIntValue(intQas', Ev.key) = [result |-> Atoi(t), found |-> TRUE]
    /\ out' = out

\* C8 as the claim has it: at the event of an AskForInt, every token that
\* does not parse as an integer is rejected with the hint "> Please enter an
\* integer e.g. 34" recorded and the event stays; a token that parses moves
\* the session to the next event, and GetIntValue(key) is the integer parsed.
C8_EveryRejectionHints ==
    [][\A t \in {last'.token} :
          ReceivesInt(t)
          => IF AtoiOk(t) THEN AdvancesWith(t)
             ELSE /\ pc' = "spawn" /\ ev' = ev /\ flow' = flow
                  /\ out' = Append(out, IntHintRecord)]_vars

\* C8, amended: at the event of an AskForInt, an empty token is rejected
\* with nothing recorded, and a non-empty token that does not parse as an
\* integer is rejected with the hint "> Please enter an integer e.g. 34"
\* recorded; either way the event stays and the int answers are unchanged.
\* A token that parses moves the session to the next event, and
\* GetIntValue(key) is then the integer parsed, found.
C8_RejectsUntilInteger ==
    [][\A t \in {last'.token} :
          ReceivesInt(t)
          => IF AtoiOk(t) THEN AdvancesWith(t)
             ELSE /\ pc' = "spawn" /\ ev' = ev /\ flow' = flow
                  /\ intQas' = intQas
                  /\ out' = IF t = <<>> THEN out ELSE Append(out, IntHintRecord)]_vars

\* three lines were read at an AskForInt: one was rejected with the hint, one
\* without, and 17 was accepted
C8_Witness ==
    /\ last.mode = "int" /\ last.ok /\ last.token = <<"1", "7">>
    /\ inputs = 3 /\ prog = "TestAskInt"
    /\ Len(SelectSeq(out, LAMBDA o : o = IntHintRecord)) = 1
    /\ GetIntValue(intQas, "apples") = [result |-> 17, found |-> TRUE]

-----------------------------------------------------------------------------
(* C9 *)

\* the record of the question of the current event
QuestionRecord == [rec |-> BufferObject(<<>>, <<"> ">> \o Ev.text, FALSE), by |-> "session"]

\* the session has shown the question and waits for the answer: the question
\* is the last record the session made
Asked ==
    \E k \in 1..Len(out) :
        /\ out[k] = QuestionRecord
        /\ \A j \in (k + 1)..Len(out) : out[j].by # "session"

-----------------------------------------------------------------------------
(* C10 *)

\* the record made last is the one of a ThenDisplay event
Displayed == Len(out) > 0 /\ out[Len(out)].rec.In = <<"display_event">>

DisplayFuncs == {"pointless", "only", "forecast", "version"}

\* C10: the record an event of ThenDisplay has just made carries what its
\* function returns for the answers stored at that moment: after a question
\* earlier in the same run, the text is computed from the answer that
\* question accepted (the README's forecast and version displays), also when
\* the function is called again after a second question.
C10_DisplayReadsStoredAnswer ==
    Displayed
    => /\ out[Len(out)].by = "session"
       /\ \E d \in DisplayFuncs : out[Len(out)].rec = DisplayMessage(d, qas, intQas)
       /\ prog = "Forecast"
            => /\ last.mode = "any" /\ last.ok
               /\ out[Len(out)].rec.Out
                    = <<"> ", "Looks like ">> \o last.token \o <<" weather...">>
       /\ prog = "Version"
            => /\ last.mode = "int" /\ last.ok
               /\ out[Len(out)].rec.Out
                    = <<"> ", "installed version '">> \o Itoa(Atoi(last.token)) \o <<"'">>

\* the forecast was displayed for the answer wet and, after the second
\* question, for the answer dry
C10_Witness ==
    /\ prog = "Forecast" /\ Displayed
    /\ out[Len(out)].rec.Out = <<"> ", "Looks like ", "d", "r", "y", " weather...">>
    /\ \E i \in 1..(Len(out) - 1) :
          out[i].rec.Out = <<"> ", "Looks like ", "w", "e", "t", " weather...">>

-----------------------------------------------------------------------------
(* C11 *)

\* the jitter has counted past waitFor, cancelled and ended, and the callback
\* has not returned yet
DeadlinePassed == pc = "callback" /\ ~jit.alive /\ jit.jitterEnded = 1

\* the jitter has rendered its error line
ErrorRendered ==
    \E i \in 1..Len(out) : out[i] = [rec |-> DisplayError(jit), by |-> "jitter"]

\* the error line is there and the context is cancelled whenever the deadline
\* has passed on a running callback
C11_DeadlineCancelsAndRenders == DeadlinePassed => jit.ctxDone /\ ErrorRendered

\* C11 as the claim has it: whenever the ticks have exceeded the deadline
\* before the callback returned, the context is cancelled, the "...error"
\* line is rendered, and when runFunc returns it returns an error that is
\* not nil, which the session hands to bufferError to be shown.
C11_TimeoutReturnsError ==
    /\ [](DeadlinePassed => jit.ctxDone /\ ErrorRendered)
    /\ [][DeadlinePassed /\ pc' = "jitterEnded" => cb'.err # <<>>]_vars
    /\ [][pc = "jitterEnded" /\ pc' = "run" /\ ErrorRendered
            => out'[Len(out')] = [rec |-> ErrorMessage(cb.err), by |-> "session"]]_vars

-----------------------------------------------------------------------------
(* C12 *)

\* C12 as the claim has it: once the deadline of a RunExec has passed on a
\* callback that is still running, nothing the callback does changes the
\* variable the host program reads after the executor has returned (message,
\* the variable of TestFunc and TestFuncTimeout): it holds after runFunc's
\* return what it held when the deadline passed.
C12_NoEffectAfterDeadline ==
    [][DeadlinePassed => message' = message]_vars

-----------------------------------------------------------------------------
(* C13 *)

\* the callback has returned, and it returned no later than waitFor ms after
\* runFunc called it
CompletedFirst == pc = "jitterEnded" /\ Finish <= jit.waitFor

\* the jitter has rendered its done line
DoneRendered ==
    \E i \in 1..Len(out) : out[i] = [rec |-> DisplayDone(jit), by |-> "jitter"]

\* C13 as the claim has it: when the callback has completed before the
\* deadline and the jitter has ended, the jitter has rendered "...done" and
\* not "...error", and the error runFunc is about to return is the one the
\* callback returned, nil when it succeeded.
C13_CompletionRendersDone ==
    CompletedFirst /\ jit.jitterEnded = 1
    => /\ DoneRendered /\ ~ErrorRendered
       /\ cb.err = ExecFunc(cb.f).err

\* what of C13 is left when the line the jitter renders is left out
C13_ReturnsCallbacksError == CompletedFirst => cb.err = ExecFunc(cb.f).err

-----------------------------------------------------------------------------
(* C14 *)

\* runFunc returns to runExec with an error that is not nil
ExecFails == pc = "jitterEnded" /\ pc' # "jitterEnded" /\ cb.err # <<>>

\* C14 as the claim has it: whatever error the callback of a ThenRun has
\* returned ("no bueno", the error of a timeout, "EOF" or "carriage_return"),
\* once runFunc has returned it the session is neither ended nor blocked: it
\* is back in runEvents at the event that follows the ThenRun.
C14_ExecErrorIsRecoverable ==
    [][ExecFails => /\ pc' = "run" /\ ev' = nextEvent(Node, ev)
                    /\ cancel' = cancel /\ exited' = exited /\ ~panicked']_vars

-----------------------------------------------------------------------------
(* C15 *)

\* both events of TestSmallBuffer have fired
BothDisplayed ==
    /\ prog = "TestSmallBuffer"
    /\ \E i \in 1..Len(out) : out[i].rec = DisplayMessage("pointless", qas, intQas)

\* C15 as the claim has it: in every reachable state the Buffer holds no more
\* records than bufferSize, also while several goroutines are emitting; and
\* in TestSmallBuffer, with bufferSize 1, once the second ThenDisplay has
\* fired the record of the first is gone from the Buffer.
C15_BufferWithinCapacity ==
    /\ Len(Buffer) <= bufferSize
    /\ BothDisplayed
         => \A i \in 1..Len(Buffer) : Buffer[i] # DisplayMessage("only", qas, intQas)

\* the second half of C15 by itself
C15_SecondDisplayOnly ==
    BothDisplayed /\ startPc = "waiting"
    => Buffer = <<DisplayMessage("pointless", qas, intQas)>>

-----------------------------------------------------------------------------
(* C16 *)

Min(a, b) == IF a <= b THEN a ELSE b

\* the n records made last, the last one first
MostRecent(n) == [i \in 1..n |-> out[Len(out) + 1 - i].rec]

\* C16: after any k calls of shellOutput on a Buffer of capacity N >= 1, made
\* one after the other, the Buffer holds the min(k, N) records made last,
\* the last one at the front, each as it was made: what is evicted is always
\* the oldest record, and no record is changed or moved.
C16_BufferIsMostRecent ==
    Buffer = MostRecent(Min(Len(out), bufferSize))

\* a Buffer of capacity 2 after 4 records, the last two of them different
C16_Witness ==
    /\ bufferSize = 2 /\ Len(out) = 4 /\ Len(Buffer) = 2
    /\ out[3].rec # out[4].rec /\ out[2].rec # out[3].rec

-----------------------------------------------------------------------------
(* C17 *)

\* a record recall may return: its input is not empty and it is not hidden
Recallable(b) == b.In # <<>> /\ ~b.hidden

\* C17 as the claim has it: lastCommand over the Buffer returns the input of
\* the most recent record that has an input and is not hidden, passing over
\* the hidden records and those with no input, and the empty string when
\* there is no such record.
C17_RecallSkipsHidden ==
    IF \E i \in 1..Len(Buffer) : Recallable(Buffer[i])
    THEN \E i \in 1..Len(Buffer) :
            /\ Recallable(Buffer[i])
            /\ \A j \in 1..(i - 1) : ~Recallable(Buffer[j])
            /\ lastCommand(Buffer) = Buffer[i].In
    ELSE lastCommand(Buffer) = <<>>

\* what lastCommand does return: the input of the most recent record that
\* has one, hidden or not
C17_RecallSkipsEmpty ==
    IF \E i \in 1..Len(Buffer) : Buffer[i].In # <<>>
    THEN \E i \in 1..Len(Buffer) :
            /\ Buffer[i].In # <<>>
            /\ \A j \in 1..(i - 1) : Buffer[j].In = <<>>
            /\ lastCommand(Buffer) = Buffer[i].In
    ELSE lastCommand(Buffer) = <<>>

-----------------------------------------------------------------------------
(* C18 *)

Reserved == {EXIT, QUIT, BACK}

\* a reserved word is the key of a child of some node
ReservedKey == \E n \in 1..Len(heap) : DOMAIN heap[n].Flows \cap Reserved # {}

\* the argument list has a reserved word in it
HasReserved(input) == \E i \in 1..Len(input) : input[i] \in Reserved

\* C18: in no reachable state is exit, quit or back a key of any node's
\* Flows, and every call of IfUserInputs with a reserved word among its
\* tokens panics and leaves the word unregistered.
C18_ReservedNeverRegistered ==
    /\ [](~ReservedKey)
    /\ [][\A input \in BuilderInputs :
            CallIfUserInputs(input) /\ HasReserved(input)
            => panicked' /\ ~ReservedKey']_vars

\* a call has panicked after it registered the token before the reserved one
C18_Witness ==
    /\ panicked /\ Len(heap) = 2
    /\ DOMAIN heap[1].Flows = {Y} /\ heap[1].BaseCommands = <<Y>>

-----------------------------------------------------------------------------
(* C19 *)

\* the tokens of an argument list
TokensOf(input) == {input[i] : i \in 1..Len(input)}

\* what a call IfUserInputs(input...) that returns has done to the current
\* node: one node is new, every token is a key of it, the first token is the
\* one option more, and the other children are as they were
RegistersOneChild(input) ==
    LET new == Len(heap') IN
    /\ Len(heap') = Len(heap) + 1
    /\ heap'[new] = NewFlow
    /\ \A t \in TokensOf(input) :
          t \in DOMAIN heap'[flow].Flows /\ heap'[flow].Flows[t] = new
    /\ heap'[flow].BaseCommands = Append(heap[flow].BaseCommands, input[1])
    /\ DOMAIN heap'[flow].Flows = DOMAIN heap[flow].Flows \cup TokensOf(input)
    /\ \A t \in DOMAIN heap[flow].Flows \ TokensOf(input) :
          heap'[flow].Flows[t] = heap[flow].Flows[t]

\* C19: a call IfUserInputs(t1, ..., tk) that returns maps every ti of the
\* current node to one and the same new child and appends t1, and no other
\* token, to the node's BaseCommands, so that the options instruct shows are
\* the first tokens of the calls in the order of the calls.
C19_OneChildOneOption ==
    [][\A input \in BuilderInputs :
          CallIfUserInputs(input) /\ input # <<>> /\ ~panicked'
          => RegistersOneChild(input)]_vars

\* two calls have been made on the root, IfUserInputs(y) and then
\* IfUserInputs(n, y): both tokens lead to the second child, and the options
\* are the first tokens of the two calls
C19_Witness ==
    /\ ~panicked /\ Len(heap) = 3 /\ flow = 1
    /\ heap[1].BaseCommands = <<Y, N>>
    /\ DOMAIN heap[1].Flows = {Y, N}
    /\ heap[1].Flows[Y] = 3 /\ heap[1].Flows[N] = 3

-----------------------------------------------------------------------------
(* C20 *)

\* C20 as the claim has it: whatever the configuration, the lines typed, the
\* results of the callbacks and the moments of the interrupts, nothing the
\* engine does during a session panics: exit() does not close s.cancel a
\* second time, no closure that is nil is called, and shellOutput does not
\* remove the Back() of an empty Buffer.
C20_NoCrash == ~panicked

-----------------------------------------------------------------------------
(* C21 *)

\* how often the exit message has been recorded
ExitCount == Cardinality({i \in 1..Len(out) : out[i].rec = ExitMessage})

\* the session goroutine is where a call of exit() leaves it: waiting on
\* s.quit, for good
AfterExit == pc = "blocked"

\* C21: cancel is closed by the one call of exit() a session makes: once it
\* is closed it stays closed, the session goroutine calls nothing more, and
\* no call of exit() finds it closed; the exit message is recorded at most
\* once, by Start(), which records it once cancel is closed and has recorded
\* it exactly once when it returns -- whether the trigger was a ThenQuit, the
\* token exit or quit, an interrupt or the end of the events, and also when
\* an interrupt comes on top of another trigger.
C21_TerminatesOnce ==
    /\ [](cancel = "closed" => AfterExit)
    /\ [][cancel = "closed" => cancel' = "closed" /\ pc' = pc /\ ~panicked']_vars
    /\ [](ExitCount <= 1)
    /\ [](startPc = "done" => ExitCount = 1)
    /\ [](ExitCount = 1 => cancel = "closed")
    /\ [](cancel = "closed" => <>(startPc = "done"))

\* a ThenQuit has ended the session, an interrupt has been delivered as
\* well, and Start() has returned
C21_Witness ==
    /\ Terminated /\ exited /\ signals > 0 /\ OsInterrupt > 0
    /\ Len(QuitRecords) = 1

-----------------------------------------------------------------------------
(* C22 *)

\* a waitForInput goroutine has been started
ReaderStarted == Len(readers') > Len(readers)

\* C22: there is never more than one waitForInput goroutine, and one is
\* started only by awaitAnyInput's loop when there is none: the reader
\* before it has sent its token, and the handler has returned on it.
C22_OneReadOutstanding ==
    /\ [](Len(readers) <= 1)
    /\ [][ReaderStarted => readers = <<>> /\ pc = "spawn" /\ Len(readers') = 1]_vars
    /\ [][\A i \in 1..Len(readers) :
            readers[i].pc = "send" /\ readers' # readers
            => readers' = <<>> /\ last'.token = readers[i].token /\ pc' # "select"]_vars

\* a reader has been started after the token of the reader before it was
\* dispatched and rejected
C22_Witness ==
    /\ Len(readers) = 1 /\ readers[1].pc = "instruct"
    /\ last.mode = "command" /\ ~last.ok /\ pc = "select"

-----------------------------------------------------------------------------
(* C23 *)

\* a step of a waitForInput goroutine or of the jitter goroutine
BackgroundStep ==
    \/ Reader
    \/ Jitter
    \/ \E i \in 1..Len(readers) : \E line \in Lines(prog) : ReadLine(i, line)
    \/ \E i \in 1..Len(readers) : ReadEOF(i)

\* C23 as the claim has it: no step of a waitForInput goroutine or of the
\* jitter goroutine writes the Buffer, s.flow or the answer maps; what they
\* have for the session goes through UserInput and jitterEnded.
C23_OnlySessionMutates ==
    [][BackgroundStep => UNCHANGED <<Buffer, flow, qas, intQas, floatQas>>]_vars

\* what of C23 the code keeps: s.flow and the answer maps
C23_FlowAndAnswersConfined ==
    [][BackgroundStep => UNCHANGED <<flow, qas, intQas, floatQas>>]_vars


-----------------------------------------------------------------------------
(* C24: one notification per runFunc, and no jitter goroutine outliving it *)

\* runFunc returns: its receive on jitterEnded, then bufferError
RunFuncReturns == pc = "jitterEnded" /\ pc' # "jitterEnded"

\* jitter sends on jitterEnded
JitterNotifies == jit.jitterEnded = 0 /\ jit'.jitterEnded = 1

\* helper: jitter notifies once, while it is alive and its runFunc is waiting
\* or about to wait, and runFunc consumes exactly that notification
C24_NotifiedOnce ==
    /\ [][JitterNotifies => jit.alive /\ ~jit'.alive
                            /\ pc \in {"callback", "jitterEnded"}]_vars
    /\ [][RunFuncReturns => jit.jitterEnded = 1 /\ ~jit.alive
                            /\ jit'.jitterEnded = 0]_vars
    /\ [](jit.jitterEnded \in {0, 1})

\* C24: every runFunc gets exactly one notification from its jitter and
\* consumes it once, and when runFunc returns its jitter goroutine has
\* finished: ticker stopped, writer flushed, no jitter goroutine left behind.
C24_NoJitterOutlivesRunFunc ==
    /\ C24_NotifiedOnce
    /\ [][RunFuncReturns => deferred = 0]_vars


-----------------------------------------------------------------------------
(* C25: an interrupt while a callback runs *)

\* an interrupt is waiting in OsInterrupt while the callback of a runFunc is
\* running and its context is not cancelled
InterruptedCallback == pc = "callback" /\ OsInterrupt > 0 /\ ~jit.ctxDone

\* the interrupt has been received and the context of the runFunc in
\* progress is cancelled
CancelledByInterrupt == OsInterrupt = 0 /\ jit.ctxDone

\* helper: while a runFunc is in progress nothing receives from OsInterrupt
C25_RunFuncIgnoresInterrupt ==
    [][(pc \in {"runFunc", "callback", "jitterEnded"}) => OsInterrupt' >= OsInterrupt]_vars

\* C25: an interrupt delivered while a RunExec callback is running is
\* received by the executor, which cancels the callback's context: the
\* cancellation comes from the interrupt, not from the deadline or from the
\* callback's return.
C25_InterruptCancelsCallback == InterruptedCallback ~> CancelledByInterrupt


-----------------------------------------------------------------------------
(* C26: the order of a node's events within a visit *)

\* s is a prefix of t
IsPrefix(s, t) == Len(s) <= Len(t) /\ SubSeq(t, 1, Len(s)) = s

\* the session stays at its node
SameVisit == flow' = flow

\* C26: while the session stays at a node, runEvents goes from an event to
\* the one appended right after it or to the end, never back and never past
\* one, so each event fires at most once and in the order of appending; a
\* visit starts at the front; and a step that adds events (the closure of a
\* ThenBranch or a GoTo) appends them behind every event the node already
\* has, the one being fired included.
C26_EventsFireInOrder ==
    /\ [][SameVisit => ev' \in {ev, ev + 1, 0}]_vars
    /\ [][SameVisit /\ ev = 0 /\ pc # "greeting" => ev' = 0]_vars
    /\ [][~SameVisit => ev' = Front(heap'[flow'])]_vars
    /\ [][/\ Len(heap) <= Len(heap')
          /\ \A n \in 1..Len(heap) : IsPrefix(heap[n].Events, heap'[n].Events)]_vars
    /\ [](ev <= Len(Node.Events))

\* the await a GoTo's closure appended to the node of its event is fired, after
\* the GoTo that was the node's only event when the visit began
C26_Witness ==
    /\ prog = "TestGotos" /\ pc = "select"
    /\ ev = 2 /\ Ev.kind = "await" /\ Node.Events[1].kind = "goto"


-----------------------------------------------------------------------------
(* C28: what follows a command that names a child *)

\* the session is at a node below the root and its runEvents has run out of
\* events there, no ThenQuit among them
ChildExhausted == Exhausted /\ flow # 1

\* the session goroutine moves on
SessionMoves == pc' # pc

\* C28 as stated: a matched command makes the child current and runs its
\* events from the first, and when they have run out without a ThenQuit the
\* session awaits a command again, with a new read.
C28_ExhaustedChildAwaits ==
    /\ [][flow' # flow => /\ pc = "select" /\ Ev.kind = "await"
                          /\ flowCommand(Node, last'.token)
                          /\ flow' = Node.Flows[last'.token]
                          /\ ev' = Front(heap'[flow']) /\ pc' = "run"]_vars
    /\ [][ChildExhausted /\ SessionMoves => pc' = "spawn"]_vars

\* C28, amended: a matched command makes the child current and runs its
\* events from the first, in the same session step; the session awaits a
\* command at the child, with a new read, exactly when runEvents reaches an
\* event of IfUserInputs there, and when the child's events have run out
\* without a ThenQuit it calls exit() and stays blocked.
C28_MatchRunsChild ==
    /\ [][flow' # flow => /\ pc = "select" /\ Ev.kind = "await"
                          /\ flowCommand(Node, last'.token)
                          /\ flow' = Node.Flows[last'.token]
                          /\ ev' = Front(heap'[flow']) /\ pc' = "run"]_vars
    /\ [][pc = "run" /\ pc' = "spawn" => ev # 0 /\ Ev.kind \in {"await", "ask"}]_vars
    /\ [][pc = "spawn" /\ SessionMoves =>
            pc' \in {"question", "select"} /\ Len(readers') = Len(readers) + 1]_vars
    /\ [][ChildExhausted /\ SessionMoves => pc' = "blocked" /\ cancel' = "closed"]_vars
    /\ [](pc = "blocked" => cancel = "closed")

\* a child's events have run out without a ThenQuit and exit() has been called
C28_Witness ==
    /\ flow # 1 /\ pc = "blocked" /\ ev = 0 /\ ~exited /\ ~panicked
    /\ cancel = "closed" /\ last.node = flow /\ last.ok /\ signals = 0


-----------------------------------------------------------------------------
(* C29: an empty line at a node with no default *)

\* awaitAnyInput hands handleCommand the empty token at a node with no Default
EmptyCommand ==
    /\ pc = "select" /\ Ev.kind = "await" /\ Node.Default = <<>>
    /\ \E i \in 1..Len(readers) : /\ readers[i].pc = "send" /\ readers[i].token = <<>>
                                  /\ readers' = Without(readers, i)

\* helper: the empty token leaves the node current and awaitAnyInput loops
C29_EmptyTokenStays ==
    [][EmptyCommand /\ ~panicked' => flow' = flow /\ ev' = ev /\ pc' = "spawn"]_vars

\* C29: at a node with no default, the empty token is no match and no error:
\* the node stays current, nothing is recorded for it (no "unrecognised
\* command", no other message), and the session asks again.
C29_EmptyTokenIsSilent ==
    [][EmptyCommand => flow' = flow /\ pc' = "spawn" /\ out' = out]_vars


-----------------------------------------------------------------------------
(* C30: what a GoTo attaches where *)

\* the nodes that are children of node n
Children(n) == {heap[n].Flows[t] : t \in DOMAIN heap[n].Flows}

\* the event being fired is a GoTo whose Branch was found
FiresGoTo ==
    /\ pc = "run" /\ ev # 0 /\ Ev.kind = "goto" /\ Ev.fn # "nil"
    /\ ev' # ev

\* C30: a GoTo event runs the closure of its Branch at the node that is
\* current: every child it attaches there is a Flow made by this firing, and
\* no other node that existed changes; so no node is ever the child of two
\* nodes, and what one firing attached is under its own node only.
C30_FreshChildren ==
    /\ [][FiresGoTo =>
            /\ flow' = flow
            /\ \A t \in DOMAIN heap'[flow].Flows :
                  \/ t \in DOMAIN heap[flow].Flows /\ heap'[flow].Flows[t] = heap[flow].Flows[t]
                  \/ heap'[flow].Flows[t] > Len(heap)
            /\ \A n \in 1..Len(heap) : n # flow => heap'[n] = heap[n]]_vars
    /\ [](\A m, n \in 1..Len(heap) : m # n => Children(m) \cap Children(n) = {})
    /\ [](\A n \in 1..Len(heap) : \A c \in Children(n) : n < c /\ c <= Len(heap))

\* the Branch "again" has fired at two nodes, one below the other, and each
\* has the children of its own firing
C30_Witness ==
    /\ prog = "Again" /\ ~panicked
    /\ \E m, n \in 1..Len(heap) :
          /\ m # n /\ n \in Children(m)
          /\ Y \in DOMAIN heap[m].Flows /\ Y \in DOMAIN heap[n].Flows
          /\ \E i \in 1..Len(heap[m].Events) : heap[m].Events[i].kind = "goto"
          /\ \E i \in 1..Len(heap[n].Events) : heap[n].Events[i].kind = "goto"
          /\ flow = heap[n].Flows[Y]


-----------------------------------------------------------------------------
(* C31: one token registered twice under one parent *)

\* the record of a ThenQuit with this message is among the records made
QuitShown(msg) == \E i \in 1..Len(out) : out[i].rec = QuitMessage(msg)

\* C31: in the program that registers "y" twice under the root, the token
\* names one child, the Flow of the later IfUserInputs (the third node made),
\* whose only event is the later ThenQuit; submitting "y" makes that node
\* current and its Quit is the only one that runs: the earlier child is
\* never current and its message is never recorded.
C31_LastRegistrationWins ==
    /\ [](prog = "Twice" =>
            /\ DOMAIN heap[1].Flows = {Y} /\ heap[1].Flows[Y] = 3
            /\ heap[2].Events = <<Event("quit", <<"first">>, "", "", 0)>>
            /\ heap[3].Events = <<Event("quit", <<"second">>, "", "", 0)>>)
    /\ [](prog = "Twice" => flow \in {1, 3} /\ ~QuitShown(<<"first">>))
    /\ [][prog = "Twice" /\ flow' # flow => last'.token = Y /\ flow' = 3]_vars

\* "y" was submitted and the later child's Quit has run
C31_Witness ==
    /\ prog = "Twice" /\ flow = 3 /\ last.token = Y /\ exited
    /\ QuitShown(<<"second">>)


-----------------------------------------------------------------------------
(* C32: the special sequences of a sanitized line *)

\* the positions of the Buffer's records that carry an input, the Front first
WithInput(buf) == {i \in 1..Len(buf) : buf[i].In # <<>>}

\* the last non-empty input recorded in the Buffer, "" when there is none
LastInput(buf) ==
    IF WithInput(buf) = {} THEN <<>>
    ELSE buf[CHOOSE i \in WithInput(buf) : \A j \in WithInput(buf) : i <= j].In

\* the sanitized line begins with ESC '['  and one byte more
IsEscape(l) == Len(l) >= 3 /\ SubSeq(l, 1, 2) = <<ESC, "[">>

\* what the claim says a sanitized line becomes
Resolved(l, buf) ==
    IF IsEscape(l) /\ l[3] = "A" THEN LastInput(buf)
    ELSE IF IsEscape(l) THEN <<>>
    ELSE l

\* reader i has read a line and made its token in this step
ReadsLine(i) ==
    /\ i <= Len(readers) /\ i <= Len(readers')
    /\ readers[i].pc = "read" /\ readers'[i].pc = "send"

\* C32: the token a reader makes of a line is what emptyUserInput makes of:
\* the last non-empty input recorded in the History Buffer when the sanitized
\* line begins with ESC '[' 'A'; the empty token when it begins with ESC '['
\* and another byte; the sanitized line itself otherwise.
C32_SpecialSequences ==
    [][\A i \in 1..1 : ReadsLine(i) =>
          readers'[i].token =
              emptyUserInput(Resolved(sanitize(readers'[i].raw), Buffer),
                             awaitingAnswer, Node.Default)]_vars

\* a reader has made of the recall sequence an input recorded earlier, at a
\* node that has no default
C32_Witness ==
    /\ Len(readers) = 1 /\ readers[1].pc = "send"
    /\ readers[1].raw = Line(ArrowUp) /\ Node.Default = <<>>
    /\ readers[1].token # <<>>
    /\ \E i \in 1..Len(out) : out[i].rec.In = readers[1].token


-----------------------------------------------------------------------------
(* C33: the end of the input *)

\* a reader's ReadString returns the error EOF in this step
ReadsEOF == \E i \in 1..Len(readers) : readers[i].pc = "read" /\ readers' = Without(readers, i)

\* awaitAnyInput is in its select and no reader is left to send
Starved == ~panicked /\ pc = "select" /\ readers = <<>>

\* C33: the error EOF ends the reader without a token and without a record:
\* the current node, the answer maps, the Buffer and the session's position
\* are as before; and the session whose reader has ended so stays in its
\* select, with no new reader, until it receives an interrupt.
C33_EOFIsSwallowed ==
    /\ [][ReadsEOF => UNCHANGED <<flow, ev, pc, qas, intQas, floatQas, awaitingAnswer,
                                 Buffer, out, panicked, cancel, last>>]_vars
    /\ [][Starved => \/ pc' = "select" /\ readers' = <<>> /\ cancel' = cancel
                        /\ UNCHANGED <<flow, ev, qas, intQas, floatQas, Buffer, out>>
                     \/ OsInterrupt' < OsInterrupt]_vars

\* a reader has met the end of the input and the session waits with none
C33_Witness == Starved /\ OsInterrupt = 0 /\ signals = 0 /\ cancel = "open"


-----------------------------------------------------------------------------
(* C34: what recall re-submits *)

\* reader i has read the recall sequence and made its token in this step
Recalls(i) == ReadsLine(i) /\ IsEscape(sanitize(readers'[i].raw))
              /\ sanitize(readers'[i].raw)[3] = "A"

\* what recall resolved to in this step: the token, unless emptyUserInput put
\* the default in the place of an empty one
Recalled(i) ==
    IF SubstitutesDefault(special(sanitize(readers'[i].raw), Buffer), awaitingAnswer,
                          Node.Default)
    THEN <<>> ELSE readers'[i].token

\* C34: recall resolves to the most recent non-empty token the user
\* submitted, whether it matched a child, matched none or was the default put
\* in the place of an empty line; and never to a string the user did not
\* submit, such as the input the program gives its own records.
C34_RecallIsLastSubmitted ==
    [][\A i \in 1..1 : Recalls(i) =>
          /\ last.token # <<>> => Recalled(i) = last.token
          /\ Recalled(i) \notin {<<"display_event">>, errorUUID}]_vars


-----------------------------------------------------------------------------
(* C35: answer mode while a question is pending *)

\* the event of an Ask is in its awaitAnyInput
AskPending == ~panicked /\ pc \in {"spawn", "question", "select"} /\ Ev.kind = "ask"

\* a reader records something in this step: the prompt with the options, or
\* the default it puts in the place of an empty line
ReaderRecords == Len(out') > Len(out) /\ out'[Len(out')].by = "reader"

\* the pending question is stored under a key that is not empty
KeyedAskPending == AskPending /\ Ev.key # ""

\* helper: a question stored under a key that is not empty has the reader in
\* answer mode
C35_AnswerModeWithKey ==
    /\ [](KeyedAskPending => awaitingAnswer # "")
    /\ [][KeyedAskPending => ~ReaderRecords]_vars
    /\ [][\A i \in 1..1 : KeyedAskPending /\ ReadsLine(i) =>
             readers'[i].token = special(sanitize(readers'[i].raw), Buffer)]_vars
    /\ [](pc = "run" => awaitingAnswer = "")

\* C35: while the event of an Ask is pending, whatever its key, the reader
\* is in answer mode: it shows no "[options: ...]" prompt and puts no default
\* in the place of an empty line, so the token is the line it read; and when
\* the event has ended, awaitingAnswer is empty again.
C35_AnswerModeWhilePending ==
    /\ [][AskPending => ~ReaderRecords]_vars
    /\ [][\A i \in 1..1 : AskPending /\ ReadsLine(i) =>
             readers'[i].token = special(sanitize(readers'[i].raw), Buffer)]_vars
    /\ [](AskPending => awaitingAnswer # "")
    /\ [](pc = "run" => awaitingAnswer = "")

-----------------------------------------------------------------------------
(* C36: what a rejected answer leaves behind *)

\* the handler of the pending question returns false in this step
AnswerRejected == ~panicked /\ pc = "select" /\ Ev.kind = "ask" /\ pc' = "spawn"

\* helper: a rejected answer leaves intQas and floatQas as they were, and an
\* empty one leaves qas as it was too
C36_RejectedKeepsNumbers ==
    [][AnswerRejected => /\ UNCHANGED <<intQas, floatQas>>
                         /\ last'.token = <<>> => qas' = qas]_vars

\* C36: when the handler of a question rejects a line, the three answer maps
\* are as they were, so GetValue, GetIntValue and GetFloatValue give for
\* every key what they gave before the line.
C36_RejectedAnswerStoresNothing ==
    [][AnswerRejected => UNCHANGED <<qas, intQas, floatQas>>]_vars


-----------------------------------------------------------------------------
(* C37: the reserved words as answers *)

\* awaitAnyInput hands the handler of a free-form Ask the token exit or quit
ReservedAnswer ==
    /\ ~panicked /\ pc = "select" /\ Ev.kind = "ask" /\ Ev.fn = "any"
    /\ \E i \in 1..Len(readers) : /\ readers[i].pc = "send"
                                  /\ readers[i].token \in {EXIT, QUIT}
                                  /\ readers' = Without(readers, i)

\* C37: while a free-form Ask is pending, exit and quit are answers like any
\* other: the token is stored under the question's key, the event ends and
\* runEvents goes on to the next, and exit() is not called.
C37_ReservedWordsAreAnswers ==
    [][ReservedAnswer =>
          /\ awaitingAnswer \in DOMAIN qas' /\ qas'[awaitingAnswer] = last'.token
          /\ last'.token \in {EXIT, QUIT}
          /\ pc' = "run" /\ ev' = nextEvent(Node, ev) /\ flow' = flow
          /\ cancel' = cancel /\ exited' = exited /\ ~panicked']_vars

\* "quit" is the answer stored and the session is running the next event
C37_Witness ==
    /\ prog = "TestAsk" /\ "amv" \in DOMAIN qas /\ qas["amv"] = QUIT
    /\ cancel = "open" /\ pc # "blocked" /\ ~panicked


-----------------------------------------------------------------------------
(* C38: the current node only descends *)

\* awaitAnyInput hands handleCommand the token back
BackCommand ==
    /\ ~panicked /\ pc = "select" /\ Ev.kind = "await"
    /\ \E i \in 1..Len(readers) : /\ readers[i].pc = "send" /\ readers[i].token = BACK
                                  /\ readers' = Without(readers, i)

\* C38: whenever the current node changes, the new one is a child of the old
\* one, found under the token just dispatched, and a node made after it, so
\* the session never moves to an ancestor or a sibling and is at no node
\* twice; back names no child (IfUserInputs refuses it) and is answered as
\* an unrecognised command at the same node.
C38_FlowOnlyDescends ==
    /\ [][flow' # flow => /\ flow' \in Children(flow) /\ flow < flow'
                          /\ flow' = heap[flow].Flows[last'.token]]_vars
    /\ [](\A n \in 1..Len(heap) : BACK \notin DOMAIN heap[n].Flows)
    /\ [][BackCommand /\ ~panicked' =>
            /\ flow' = flow /\ ev' = ev /\ pc' = "spawn"
            /\ out' = Append(out, [rec |-> badCommand(BACK), by |-> "session"])]_vars

\* back was typed below the root and the session is at the same node
C38_Witness ==
    /\ flow # 1 /\ last.token = BACK /\ last.node = flow /\ last.mode = "command"
    /\ ~last.ok /\ pc = "spawn" /\ ~panicked


-----------------------------------------------------------------------------
(* C39: one call of the callback for each ThenRun event fired *)

\* the session goroutine is inside runFunc
InRunFunc == pc \in {"runFunc", "callback", "jitterEnded"}

-----------------------------------------------------------------------------
(* C40: the jitter's count and the tick at which it cancels *)

\* the jitter cancels a context nothing else has cancelled: the deadline
\* has passed for a callback that has not returned
TimeoutFires == jit.alive /\ ~jit.ctxDone /\ jit'.ctxDone /\ ~jit'.alive

\* the ticks the jitter has taken
Ticks == jit.count \div JITTER_TIME

\* C40: the jitter counts JITTER_TIME (140) at every tick; it cancels for the
\* deadline only with a count strictly greater than it, and for a callback
\* that has not returned it does so at tick waitFor \div 140 + 1 exactly (the
\* first for the deadline 0, the second for 140); pos stays within 0..3.
C40_TimeoutTick ==
    /\ [](jit.count = JITTER_TIME * Ticks /\ jit.pos \in 0..3)
    /\ [](jit.alive => jit.pos = Ticks % 4)
    /\ [][jit'.count # jit.count => jit'.count \in {0, jit.count + JITTER_TIME}]_vars
    /\ [][TimeoutFires => /\ jit.count > jit.waitFor
                          /\ Ticks = (jit.waitFor \div JITTER_TIME) + 1]_vars
    /\ [](jit.alive /\ ~jit.ctxDone => Ticks <= (jit.waitFor \div JITTER_TIME) + 1)

\* the deadline of one whole tick has passed at the second tick, with the
\* callback still running
C40_Witness ==
    /\ prog = "Ticks" /\ jit.waitFor = JITTER_TIME /\ jit.count = 2 * JITTER_TIME
    /\ jit.ctxDone /\ ~jit.alive /\ pc = "callback" /\ cb.running

====
